---- MODULE Spec2Model ----
(***************************************************************************)
(* A model of the refinement core of ear-to-code: the flat fixpoint        *)
(* reducer razor_all (delta.py) and the genetic loop razor / mutate /      *)
(* select / check_axioms / f (f.py), with the oracle o (o.py) as the       *)
(* environment.                                                            *)
(*                                                                         *)
(* Python values are tagged records of one shape; a Python str is the      *)
(* sequence of its characters, so that len(), "in", split and slicing are  *)
(* computed and not assumed.                                               *)
(***************************************************************************)
EXTENDS Integers, Sequences, FiniteSets, TLC

VARIABLES
    ra_input,    \* razor_all: the sequence the outermost call was given
    ra_items,    \* razor_all: parameter items of the current call
    ra_depth,    \* razor_all: parameter depth of the current call
    ra_result,   \* razor_all: local result of the current call
    ra_i,        \* razor_all: position of the for loop in items (1-based)
    ra_verdict,  \* razor_all: local verdict, the latest answer of o
    ra_pc,       \* razor_all: "enter", "loop", "done" or "raised"
    ra_ret,      \* razor_all: the value returned
    ra_passes,   \* razor_all: number of passes (for loops) started so far
    ra_calls,    \* razor_all: number of calls of o so far
    rz_idea,     \* razor: parameter idea
    rz_ov,       \* razor: the answer of o for each field submitted to it
    rz_pc,       \* razor: "call", "done" or "raised"; after the call on the
                 \*    kept candidate "again" or "raised_again"
    rz_res,      \* razor: the dict returned, or the exception raised
    rz_again,    \* razor: the same for razor(kept), kept as returned before
    mu_idea,     \* mutate: parameter idea
    mu_rate,     \* mutate: parameter rate, in thousandths
    mu_ch,       \* mutate: what random drew for each field
    mu_pc,       \* mutate: "call", "done" or "raised"
    mu_res,      \* mutate: the dict returned, or the exception raised
    se_pop,      \* select: parameter population
    se_ovs,      \* select: the answers of o during the razor of each member
    se_pc,       \* select: "call", "done" or "raised"
    se_res,      \* select: the list returned, or the exception raised
    f_input,       \* f: parameter input_data
    f_generations, \* f: parameter generations
    f_population,  \* f: local population
    f_gen,         \* f: loop variable gen (the generations completed)
    f_razored,     \* f: local razored_pop
    f_valid,       \* f: local valid_pop
    f_scored,      \* f: local scored of the call of select
    f_survivors,   \* f: local survivors
    f_new,         \* f: local new_population
    f_history,     \* f: local history
    f_final,       \* f: local final_scores
    f_pc,          \* f: "seed", "razor", "validate", "score", "select",
                   \*    "offspring", "log", "rescore", "final", "write",
                   \*    "done" or "raised"
    f_result,      \* f: the dict returned
    f_error,       \* f: the exception raised and the stage that raised it
    f_verdicts,    \* f: the values o answers with during the run
    f_cancel,      \* f: whether the host has asked for the run to be aborted
    f_log,         \* f: the lines of evolution.jsonl
    oc_field,      \* o: the long value whose claim razor submits
    oc_backend,    \* o: what the call of ollama does
    oc_pc,         \* o: "run", "log", "return", "razor", "done" or "raised"
    oc_analysis,   \* o: local analysis of occam
    oc_log,        \* o: the lines of occam.jsonl
    oc_ret,        \* o: the value o returns
    oc_razor,      \* o: the state of razor after the field
    ap_file,       \* log: the characters of the log file
    ap_pc,         \* log: for each writer "open", "write" or "closed"
    ap_left,       \* log: for each writer the characters still to write
    ap_shorts,     \* log: for each writer the short writes so far
    dm_env,        \* daemon: what can be imported, the keys set, the dirs
    dm_anthropic,  \* daemon: global anthropic is a module (not None)
    dm_genai,      \* daemon: global genai is a module (not None)
    dm_claude_client,      \* daemon: global claude_client is set
    dm_gemini_configured,  \* daemon: global gemini_configured
    dm_watchers,   \* daemon: local watchers (the names)
    dm_reaction_check,     \* daemon: local reaction_check
    dm_last_reaction,      \* daemon: the keys of local last_reaction
    dm_pc,         \* daemon: "load", "init", "watchers", "loop", "stopped"
                   \*    or "dead"
    dm_error,      \* daemon: the exception that ended daemon_loop
    ax_idea,       \* check_axioms: parameter idea
    ax_pc,         \* check_axioms: "call" or "done"
    ax_res,        \* check_axioms: the pair returned
    hp_heap,       \* objects: the dicts that exist, each at its identity
    hp_given,      \* objects: the caller's copy of the seed, made before the call
    hp_generations,\* objects: parameter generations of f
    hp_gen,        \* objects: loop variable gen of f
    hp_population, \* objects: local population of f, a list of identities
    hp_survivors,  \* objects: local survivors of f, a list of identities
    hp_new,        \* objects: local new_population of f, a list of identities
    hp_output,     \* objects: the identity of result["output"]
    hp_pc,         \* objects: "seed", "select", "offspring", "final", "done"
                   \*    or "raised"
    ew_name,       \* watcher: self.name
    ew_fs,         \* watcher: for each dir that exists its input.json
    ew_clock,      \* watcher: the time of the file system, in ticks
    ew_last_mtime, \* watcher: self.last_mtime
    ew_pc,         \* watcher: "idle", "process" or "respond"
    ew_task,       \* watcher: local task of process
    ew_processed,  \* watcher: the mtimes process() was called for, in order
    ew_outputs,    \* watcher: the tasks of the results written to output.json
    tw_pc,         \* talk: route_message is "idle" or at "write"
    tw_n,          \* talk: the calls of route_message so far
    tw_message,    \* talk: the dict route_message dumps
    tw_left,       \* talk: the characters still in the buffer of the file
    tw_shorts,     \* talk: the short writes of the call so far
    tw_sent,       \* talk: the messages route_message returned True for
    mr_ready,      \* reaction: the API of the entity is configured
    mr_clock,      \* reaction: time.time(), in seconds
    mr_last_reaction,      \* reaction: last_reaction.get(name, 0)
    mr_pc,         \* reaction: "loop", "call", "print" or "returned"
    mr_ret,        \* reaction: what maybe_react returned
    mr_writes      \* reaction: the times reaction.json was written at

raVars == <<ra_input, ra_items, ra_depth, ra_result, ra_i, ra_verdict, ra_pc,
            ra_ret, ra_passes, ra_calls>>

rzVars == <<rz_idea, rz_ov, rz_pc, rz_res, rz_again>>

muVars == <<mu_idea, mu_rate, mu_ch, mu_pc, mu_res>>

seVars == <<se_pop, se_ovs, se_pc, se_res>>

fVars == <<f_input, f_generations, f_population, f_gen, f_razored, f_valid,
           f_scored, f_survivors, f_new, f_history, f_final, f_pc, f_result,
           f_error>>

feVars == <<f_verdicts, f_cancel, f_log>>

ocVars == <<oc_field, oc_backend, oc_pc, oc_analysis, oc_log, oc_ret, oc_razor>>

apVars == <<ap_file, ap_pc, ap_left, ap_shorts>>

dmVars == <<dm_env, dm_anthropic, dm_genai, dm_claude_client,
            dm_gemini_configured, dm_watchers, dm_reaction_check,
            dm_last_reaction, dm_pc, dm_error>>

axVars == <<ax_idea, ax_pc, ax_res>>

hpVars == <<hp_heap, hp_given, hp_generations, hp_gen, hp_population,
            hp_survivors, hp_new, hp_output, hp_pc>>

ewVars == <<ew_name, ew_fs, ew_clock, ew_last_mtime, ew_pc, ew_task,
            ew_processed, ew_outputs, tw_pc, tw_n, tw_message, tw_left, tw_shorts,
            tw_sent>>

mrVars == <<mr_ready, mr_clock, mr_last_reaction, mr_pc, mr_ret, mr_writes>>

vars == <<raVars, rzVars, muVars, seVars, fVars, feVars, ocVars, apVars, dmVars,
          axVars, hpVars, ewVars, mrVars>>

\* the parts of the state of a function that is not running
RAIdle ==
    /\ ra_input = <<>> /\ ra_items = <<>> /\ ra_depth = 0 /\ ra_result = <<>>
    /\ ra_i = 1 /\ ra_pc = "idle" /\ ra_ret = <<>> /\ ra_passes = 0
    /\ ra_calls = 0 /\ ra_verdict = <<>>

RZIdle ==
    /\ rz_idea = <<>> /\ rz_ov = <<>> /\ rz_pc = "idle" /\ rz_res = <<>>
    /\ rz_again = <<>>

MUIdle ==
    /\ mu_idea = <<>> /\ mu_rate = 0 /\ mu_ch = <<>> /\ mu_pc = "idle"
    /\ mu_res = <<>>

SEIdle == se_pop = <<>> /\ se_ovs = <<>> /\ se_pc = "idle" /\ se_res = <<>>

NoError == [type |-> "", at |-> ""]

FIdle ==
    /\ f_input = <<>> /\ f_generations = 0 /\ f_population = <<>> /\ f_gen = 0
    /\ f_razored = <<>> /\ f_valid = <<>> /\ f_scored = <<>> /\ f_survivors = <<>>
    /\ f_new = <<>> /\ f_history = <<>> /\ f_final = <<>> /\ f_pc = "idle"
    /\ f_result = <<>> /\ f_error = NoError
    /\ f_verdicts = {} /\ f_cancel = FALSE /\ f_log = <<>>

\* what a step of one function leaves alone: the state of the others
OCIdle ==
    /\ oc_field = <<>> /\ oc_backend = <<>> /\ oc_pc = "idle"
    /\ oc_analysis = <<>> /\ oc_log = <<>> /\ oc_ret = <<>> /\ oc_razor = <<>>

APIdle == ap_file = <<>> /\ ap_pc = <<>> /\ ap_left = <<>> /\ ap_shorts = <<>>

DMIdle ==
    /\ dm_env = <<>> /\ dm_anthropic = FALSE /\ dm_genai = FALSE
    /\ dm_claude_client = FALSE /\ dm_gemini_configured = FALSE
    /\ dm_watchers = <<>> /\ dm_reaction_check = 0 /\ dm_last_reaction = {}
    /\ dm_pc = "idle" /\ dm_error = ""

AXIdle == ax_idea = <<>> /\ ax_pc = "idle" /\ ax_res = <<>>

HPIdle ==
    /\ hp_heap = <<>> /\ hp_given = <<>> /\ hp_generations = 0 /\ hp_gen = 0
    /\ hp_population = <<>> /\ hp_survivors = <<>> /\ hp_new = <<>>
    /\ hp_output = 0 /\ hp_pc = "idle"

EWIdle ==
    /\ ew_name = "" /\ ew_fs = <<>> /\ ew_clock = 0 /\ ew_last_mtime = 0
    /\ ew_pc = "idle" /\ ew_task = <<>> /\ ew_processed = <<>>
    /\ ew_outputs = <<>> /\ tw_pc = "idle" /\ tw_n = 0 /\ tw_message = <<>>
    /\ tw_left = <<>> /\ tw_shorts = 0 /\ tw_sent = <<>>

MRIdle ==
    /\ mr_ready = FALSE /\ mr_clock = 0 /\ mr_last_reaction = 0
    /\ mr_pc = "idle" /\ mr_ret = FALSE /\ mr_writes = <<>>

RAFrame == UNCHANGED
    <<rzVars, muVars, seVars, fVars, feVars, ocVars, apVars, dmVars, axVars,
      hpVars, ewVars, mrVars>>
RZFrame == UNCHANGED
    <<raVars, muVars, seVars, fVars, feVars, ocVars, apVars, dmVars, axVars,
      hpVars, ewVars, mrVars>>
MUFrame == UNCHANGED
    <<raVars, rzVars, seVars, fVars, feVars, ocVars, apVars, dmVars, axVars,
      hpVars, ewVars, mrVars>>
SEFrame == UNCHANGED
    <<raVars, rzVars, muVars, fVars, feVars, ocVars, apVars, dmVars, axVars,
      hpVars, ewVars, mrVars>>
FOthers == UNCHANGED
    <<raVars, rzVars, muVars, seVars, ocVars, apVars, dmVars, axVars,
      hpVars, ewVars, mrVars>>
FFrame  == FOthers /\ UNCHANGED feVars
OCFrame == UNCHANGED
    <<raVars, rzVars, muVars, seVars, fVars, feVars, apVars, dmVars, axVars,
      hpVars, ewVars, mrVars>>
APFrame == UNCHANGED
    <<raVars, rzVars, muVars, seVars, fVars, feVars, ocVars, dmVars, axVars,
      hpVars, ewVars, mrVars>>
DMFrame == UNCHANGED
    <<raVars, rzVars, muVars, seVars, fVars, feVars, ocVars, apVars, axVars,
      hpVars, ewVars, mrVars>>
AXFrame == UNCHANGED
    <<raVars, rzVars, muVars, seVars, fVars, feVars, ocVars, apVars, dmVars,
      hpVars, ewVars, mrVars>>
HPFrame == UNCHANGED
    <<raVars, rzVars, muVars, seVars, fVars, feVars, ocVars, apVars, dmVars,
      axVars,
      ewVars, mrVars>>
EWFrame == UNCHANGED
    <<raVars, rzVars, muVars, seVars, fVars, feVars, ocVars, apVars, dmVars,
      axVars, hpVars, mrVars>>
MRFrame == UNCHANGED
    <<raVars, rzVars, muVars, seVars, fVars, feVars, ocVars, apVars, dmVars,
      axVars, hpVars, ewVars>>

-----------------------------------------------------------------------------
(* Python values *)

Str(s)   == [k |-> "str",   s |-> s,    b |-> FALSE, e |-> <<>>]
Bool(b)  == [k |-> "bool",  s |-> <<>>, b |-> b,     e |-> <<>>]
Tuple(e) == [k |-> "tuple", s |-> <<>>, b |-> FALSE, e |-> e]
List(e)  == [k |-> "list",  s |-> <<>>, b |-> FALSE, e |-> e]
None     == [k |-> "none",  s |-> <<>>, b |-> FALSE, e |-> <<>>]

IsStr(v)   == v.k = "str"
IsBool(v)  == v.k = "bool"
IsTuple(v) == v.k = "tuple"
IsList(v)  == v.k = "list"

\* s[:n]
Take(s, n) == SubSeq(s, 1, IF Len(s) < n THEN Len(s) ELSE n)

\* sub in s, for two strings
Contains(s, sub) ==
    \E i \in 0..(Len(s) - Len(sub)) : SubSeq(s, i + 1, i + Len(sub)) = sub

\* s.split('\n')[0]
FirstLine(s) ==
    LET nl == {i \in 1..Len(s) : s[i] = "\n"}
    IN  IF nl = {} THEN s
        ELSE SubSeq(s, 1, (CHOOSE i \in nl : \A j \in nl : i <= j) - 1)

Rep(c, n) == [i \in 1..n |-> c]

MaxDepth  == 3     \* razor_all: the deepest call that makes a pass
SimpleLen == 50    \* razor_all: the length a simplified item is cut to

TIMEOUT_MARK == <<"[", "t", "i", "m", "e", "o", "u", "t">>
ERREUR_MARK  == <<"[", "e", "r", "r", "e", "u", "r">>

\* bool(v): Python truthiness
Truthy(v) ==
    CASE v.k = "str"   -> Len(v.s) > 0
      [] v.k = "bool"  -> v.b
      [] v.k = "int"   -> \E i \in 1..Len(v.s) : v.s[i] # "0"
      [] v.k = "tuple" -> Len(v.e) > 0
      [] v.k = "list"  -> Len(v.e) > 0
      [] OTHER         -> FALSE

\* Whether `mark in v` raises TypeError: None, a bool and a number are not
\* iterable
InRaises(v) == v.k \in {"none", "bool", "int"}

\* mark in v: a substring of a str, an element of a list or tuple
In(mark, v) ==
    IF IsStr(v) THEN Contains(v.s, mark)
    ELSE \E i \in 1..Len(v.e) : v.e[i] = Str(mark)

\* "[timeout" in verdict or "[erreur" in verdict
HasFailureMarker(verdict) ==
    In(TIMEOUT_MARK, verdict) \/ In(ERREUR_MARK, verdict)

-----------------------------------------------------------------------------
(* Bounds *)

MaxItems == 2      \* longest sequence given to razor_all
MaxTuple == 2      \* longest tuple in a dict given to mutate
MaxPop   == 3      \* largest population given to select
MaxGen   == 2      \* largest generation budget given to f

-----------------------------------------------------------------------------
(* o.py: the oracle.  o returns result["verdict"] or result["simplest"]   *)
(* (whatever JSON value the backend wrote there), the raw text, or        *)
(* str(result): the engine sees one value per call, and two calls with    *)
(* the same claim may answer differently.                                  *)

S_x       == <<"x">>
S_y       == <<"y">>
S_shorter == <<"s", "h", "o", "r", "t", "e", "r">>
S_rest    == <<"r", "e", "s", "t">>
S_boom    == ERREUR_MARK \o <<":", " ", "b", "o", "o", "m", "]">>
S_timeout == TIMEOUT_MARK \o <<"]">>
S_wide    == Rep("w", SimpleLen + 2) \o <<"\n">> \o S_rest

\* the values o answers with in the runs of razor_all
RAVerdicts ==
    { Str(S_shorter \o <<"\n">> \o S_rest),   \* a verdict of two lines
      Str(S_x),                                 \* a verdict that is an item
      Str(S_wide),                              \* a first line over 50 characters
      Str(<<>>),                                \* an empty verdict
      Str(S_boom), Str(S_timeout),              \* the two failure markers
      None,                                     \* "verdict": null
      List(<<Str(S_rest)>>) }                   \* "verdict": ["rest"]

-----------------------------------------------------------------------------
(* delta.py: razor_all *)

RAItemPool == {S_x, S_y}

RAInputs == UNION {[1..n -> RAItemPool] : n \in 0..MaxItems}

\* depth > 3
DepthExceeded_off(depth) == depth > MaxDepth + 1
DepthExceeded(depth) == depth > MaxDepth

\* whether the body of the for loop raises for this verdict: `in` on None
\* (TypeError), .split on a non-empty list (AttributeError)
RAItemRaises(verdict) ==
    \/ InRaises(verdict)
    \/ ~HasFailureMarker(verdict) /\ Truthy(verdict) /\ ~IsStr(verdict)

\* a simplification that cuts the verdict without taking its first line
Simple_whole(verdict, item) ==
    IF Truthy(verdict) THEN Take(verdict.s, SimpleLen) ELSE item

\* verdict.split('\n')[0][:50] if verdict else item
Simple(verdict, item) ==
    IF Truthy(verdict) THEN Take(FirstLine(verdict.s), SimpleLen) ELSE item

\* what the body of the for loop appends to result
RAAppended_drop(verdict, item) ==
    IF ~HasFailureMarker(verdict)
    THEN (IF Truthy(verdict) THEN <<Take(FirstLine(verdict.s), SimpleLen)>> ELSE <<>>)
    ELSE <<item>>
RAAppended(verdict, item) ==
    IF ~HasFailureMarker(verdict) THEN <<Simple(verdict, item)>> ELSE <<item>>

\* result != items
RAChanged_always(result, items) == TRUE
RAChanged(result, items) == result # items

RAInit ==
    /\ RZIdle /\ MUIdle /\ SEIdle /\ FIdle /\ OCIdle /\ APIdle /\ DMIdle
    /\ EWIdle /\ MRIdle
    /\ AXIdle /\ HPIdle
    /\ ra_input \in RAInputs
    /\ ra_items = ra_input
    /\ ra_depth = 0
    /\ ra_result = <<>>
    /\ ra_i = 1
    /\ ra_verdict = None
    /\ ra_pc = "enter"
    /\ ra_ret = <<>>
    /\ ra_passes = 0
    /\ ra_calls = 0

\* lines 30-33: the depth test, then the start of a pass
RAEnter ==
    /\ RAFrame
    /\ ra_pc = "enter"
    /\ IF DepthExceeded(ra_depth)
       THEN /\ ra_pc' = "done"
            /\ ra_ret' = ra_items
            /\ UNCHANGED <<ra_result, ra_i, ra_passes>>
       ELSE /\ ra_pc' = "loop"
            /\ ra_result' = <<>>
            /\ ra_i' = 1
            /\ ra_passes' = ra_passes + 1
            /\ UNCHANGED ra_ret
    /\ UNCHANGED <<ra_input, ra_items, ra_depth, ra_verdict, ra_calls>>

\* lines 34-41: one iteration of the for loop, with the answer of o
RAItem ==
    /\ RAFrame
    /\ ra_pc = "loop"
    /\ ra_i <= Len(ra_items)
    /\ \E verdict \in RAVerdicts :
         /\ ra_verdict' = verdict
         /\ IF RAItemRaises(verdict)
            THEN /\ ra_pc' = "raised"
                 /\ UNCHANGED <<ra_result, ra_i>>
            ELSE /\ ra_result' = ra_result \o RAAppended(verdict, ra_items[ra_i])
                 /\ ra_i' = ra_i + 1
                 /\ UNCHANGED ra_pc
    /\ ra_calls' = ra_calls + 1
    /\ UNCHANGED <<ra_input, ra_items, ra_depth, ra_ret, ra_passes>>

\* lines 44-46: after the loop, recurse on result if it differs from items
RACompare ==
    /\ RAFrame
    /\ ra_pc = "loop"
    /\ ra_i > Len(ra_items)
    /\ IF RAChanged(ra_result, ra_items)
       THEN /\ ra_items' = ra_result
            /\ ra_depth' = ra_depth + 1
            /\ ra_pc' = "enter"
            /\ UNCHANGED ra_ret
       ELSE /\ ra_ret' = ra_result
            /\ ra_pc' = "done"
            /\ UNCHANGED <<ra_items, ra_depth>>
    /\ UNCHANGED <<ra_input, ra_result, ra_i, ra_verdict, ra_passes, ra_calls>>

RANext == RAEnter \/ RAItem \/ RACompare

SpecRazorAll == RAInit /\ [][RANext]_vars

\* C1: razor_all makes at most maxDepth+1 = 4 passes over the sequence, at
\* depths 0..3, whatever o answers: no pass is started and o is never called
\* at a depth over 3, so o is called at most 4 times per item; and a call
\* that has not returned (or raised) always has a next step.
C1_AtMostFourPasses ==
    /\ ra_passes <= MaxDepth + 1
    /\ ra_pc = "loop" => ra_depth <= MaxDepth
    /\ ra_calls <= (MaxDepth + 1) * Len(ra_input)
    /\ ra_pc \in {"done", "raised"} \/ ENABLED RANext

\* a run that the depth cap ended: four passes, each one changing the sequence
C1_Witness ==
    /\ ra_pc = "done"
    /\ ra_passes = MaxDepth + 1
    /\ ra_depth = MaxDepth + 1
    /\ ra_calls = (MaxDepth + 1) * Len(ra_input)
    /\ Len(ra_input) = MaxItems

\* C2: the sequence razor_all returns is as long as the one it was given, and
\* so is the sequence every pass works on.
C2_SameLength ==
    /\ Len(ra_items) = Len(ra_input)
    /\ ra_pc = "loop" /\ ra_i > Len(ra_items) => Len(ra_result) = Len(ra_input)
    /\ ra_pc = "done" => Len(ra_ret) = Len(ra_input)

\* a return after several passes, with every item replaced
C2_Witness ==
    /\ ra_pc = "done"
    /\ ra_passes >= 2
    /\ Len(ra_ret) = MaxItems
    /\ \A i \in 1..Len(ra_ret) : ra_ret[i] # ra_input[i]

\* C3: when a pass ends with a result equal, element by element, to the
\* sequence it was given, razor_all returns that sequence and starts no
\* further pass.
C3_StopsAtFixpoint ==
    [][ (ra_pc = "loop" /\ ra_i > Len(ra_items) /\ ra_result = ra_items)
        => (ra_pc' = "done" /\ ra_ret' = ra_result /\ ra_passes' = ra_passes) ]_vars

\* a return at a fixpoint reached after the first pass and before the cap
C3_Witness ==
    /\ ra_pc = "done"
    /\ ra_depth <= MaxDepth
    /\ ra_passes >= 2
    /\ ra_ret = ra_result
    /\ ra_ret # ra_input

\* C22: in each pass of razor_all, position i of the new sequence is the
\* item at position i when the verdict for that item carries a failure
\* marker or is empty, and otherwise the first line of the verdict cut to 50
\* characters.  For the input ['x', 'y'], with the verdict 'shorter\nrest'
\* for 'x' and '[erreur: boom]' for 'y', the first pass yields
\* ['shorter', 'y'], and razor_all does not return after it: a pass that
\* changed the sequence is followed by another.
C22_PassKeepsOrSimplifies ==
    /\ (ra_pc = "loop" /\ ra_i > 1) =>
          /\ Len(ra_result) = ra_i - 1
          /\ ra_result[ra_i - 1] =
                IF \/ Contains(ra_verdict.s, TIMEOUT_MARK)
                   \/ Contains(ra_verdict.s, ERREUR_MARK)
                   \/ ra_verdict.s = <<>>
                THEN ra_items[ra_i - 1]
                ELSE Take(FirstLine(ra_verdict.s), 50)
    /\ (/\ ra_pc = "loop" /\ ra_depth = 0 /\ ra_input = <<S_x, S_y>>
        /\ ra_i = 2 /\ ra_verdict = Str(S_shorter \o <<"\n">> \o S_rest)) =>
          ra_result = <<S_shorter>>
    /\ (/\ ra_pc = "loop" /\ ra_depth = 0 /\ ra_input = <<S_x, S_y>>
        /\ ra_i = 3 /\ ra_result[1] = S_shorter /\ ra_verdict = Str(S_boom)) =>
          ra_result = <<S_shorter, S_y>>
    /\ (ra_pc = "done" /\ ra_passes = 1) => ra_ret = ra_input

\* the run of the example after its first pass: the verdict of 'y' was the
\* failure, the pass has yielded ['shorter', 'y'] and razor_all is entered
\* again with it
C22_Witness ==
    /\ ra_input = <<S_x, S_y>>
    /\ ra_pc = "enter"
    /\ ra_depth = 1
    /\ ra_verdict = Str(S_boom)
    /\ ra_result = <<S_shorter, S_y>>
    /\ ra_items = ra_result

-----------------------------------------------------------------------------
(* f.py: candidates.  An idea is a dict: a function from its keys to      *)
(* values.  Every operation below builds its dicts key by key in the      *)
(* order of the dict it was given, so one fixed order of the keys stands  *)
(* for the insertion order.                                                *)

KeyOrder == <<"a", "b", "requires_api", "ollama", "force_choice", "static",
              "immutable", "single_source">>

EmptyDict == <<>>

\* list(idea.keys())
KeysOf(idea) == SelectSeq(KeyOrder, LAMBDA k : k \in DOMAIN idea)

\* d with d[key] = value
Put(d, key, value) ==
    [k \in (DOMAIN d) \cup {key} |-> IF k = key THEN value ELSE d[k]]

LongLen == 10      \* razor: a str longer than this goes to o

S_s      == <<"s">>
S_ten    == Rep("c", LongLen)
S_eleven == Rep("c", LongLen + 1)

-----------------------------------------------------------------------------
(* f.py: razor *)

\* a test that also sends a pair to o
GoesToOracle_pairs(value) ==
    (IsStr(value) /\ Len(value.s) > 10) \/ (IsTuple(value) /\ Len(value.e) = 2)

\* isinstance(value, str) and len(value) > 10
GoesToOracle(value) == IsStr(value) /\ Len(value.s) > LongLen

\* the keys of idea whose value razor submits to o
OracleKeys(idea) == {k \in DOMAIN idea : GoesToOracle(idea[k])}

\* a count that takes a list or a tuple for one hypothesis
Hypotheses_flat(v) == 1

\* len(v) if isinstance(v, (list, tuple)) else 1
Hypotheses(v) == IF IsList(v) \/ IsTuple(v) THEN Len(v.e) ELSE 1

\* the local state of razor before the loop; score is the fraction num/den
RazorStart ==
    [error |-> "", kept |-> EmptyDict, cut |-> <<>>, num |-> 0, den |-> 1,
     calls |-> 0]

\* score += p/q
AddScore(acc, p, q) ==
    [acc EXCEPT !.num = acc.num * q + p * acc.den, !.den = acc.den * q]

\* a razor that cuts the field when o fails
RazorStep_cut(acc, key, value, verdict) ==
    IF GoesToOracle(value)
    THEN IF InRaises(verdict)
         THEN [acc EXCEPT !.error = "TypeError", !.calls = acc.calls + 1]
         ELSE IF HasFailureMarker(verdict)
              THEN [AddScore(acc, 1, 2) EXCEPT
                        !.cut = Append(acc.cut, key), !.calls = acc.calls + 1]
              ELSE [AddScore(acc, 1, 1) EXCEPT
                        !.kept = Put(acc.kept, key, Tuple(<<value, verdict>>)),
                        !.calls = acc.calls + 1]
    ELSE IF Hypotheses(value) = 0
         THEN [acc EXCEPT !.error = "ZeroDivisionError"]
         ELSE [AddScore(acc, 1, Hypotheses(value)) EXCEPT
                   !.kept = Put(acc.kept, key, value)]

\* lines 38-53: the body of the loop for one field; verdict is the answer of
\* o, read only when the field is submitted
RazorStep(acc, key, value, verdict) ==
    IF GoesToOracle(value)
    THEN IF InRaises(verdict)
         THEN [acc EXCEPT !.error = "TypeError", !.calls = acc.calls + 1]
         ELSE IF HasFailureMarker(verdict)
              THEN [AddScore(acc, 1, 2) EXCEPT
                        !.kept = Put(acc.kept, key, value),
                        !.calls = acc.calls + 1]
              ELSE [AddScore(acc, 1, 1) EXCEPT
                        !.kept = Put(acc.kept, key, Tuple(<<value, verdict>>)),
                        !.calls = acc.calls + 1]
    ELSE IF Hypotheses(value) = 0
         THEN [acc EXCEPT !.error = "ZeroDivisionError"]
         ELSE [AddScore(acc, 1, Hypotheses(value)) EXCEPT
                   !.kept = Put(acc.kept, key, value)]

\* the loop over idea.items(), from the keys ks on; an exception ends it
RECURSIVE RazorLoop(_, _, _, _)
RazorLoop(idea, ov, ks, acc) ==
    IF ks = <<>> \/ acc.error # "" THEN acc
    ELSE LET key == Head(ks)
             verdict == IF key \in DOMAIN ov THEN ov[key] ELSE None
         IN  RazorLoop(idea, ov, Tail(ks), RazorStep(acc, key, idea[key], verdict))

\* round(num/den, 3), in thousandths: the nearest, and the even one of two
Round3(num, den) ==
    LET n == num * 1000
        q == n \div den
        r == n % den
    IN  IF 2 * r > den \/ (2 * r = den /\ q % 2 = 1) THEN q + 1 ELSE q

RECURSIVE SumHypotheses(_, _)
SumHypotheses(kept, ks) ==
    IF ks = <<>> THEN 0
    ELSE Hypotheses(kept[Head(ks)]) + SumHypotheses(kept, Tail(ks))

\* razor(idea) when o answers ov[key] for the field key: the dict returned
\* (score in thousandths), or the exception in error
Razor(idea, ov) ==
    LET acc == RazorLoop(idea, ov, KeysOf(idea), RazorStart)
    IN  IF acc.error # ""
        THEN [error |-> acc.error, kept |-> EmptyDict, cut |-> <<>>,
              score |-> 0, hypotheses_total |-> 0, calls |-> acc.calls]
        ELSE [error |-> "", kept |-> acc.kept, cut |-> acc.cut,
              score |-> Round3(acc.num, acc.den),
              hypotheses_total |-> SumHypotheses(acc.kept, KeysOf(acc.kept)),
              calls |-> acc.calls]

\* the values o answers with in the runs of razor
RZVerdicts == {Str(S_rest), Str(<<>>), Str(S_timeout), Str(S_boom), None}

\* the answers of o to one call of razor(idea)
OracleAnswers(idea, verdicts) == [OracleKeys(idea) -> verdicts]

RZKeys == {"a", "b"}

RZValues ==
    { Str(S_s), Str(S_ten), Str(S_eleven), Bool(TRUE),
      Tuple(<<Str(S_s), Str(S_rest)>>),       \* a pair
      List(<<>>),                             \* an empty sequence
      List(<<Str(S_x), Str(S_y), Str(S_s)>>), \* a sequence of three
      None }

\* the dicts with keys among ks and values among vs
Dicts(ks, vs) == UNION {[d -> vs] : d \in SUBSET ks}

RZInit ==
    /\ RAIdle /\ MUIdle /\ SEIdle /\ FIdle /\ OCIdle /\ APIdle /\ DMIdle
    /\ EWIdle /\ MRIdle
    /\ AXIdle /\ HPIdle
    /\ rz_idea \in Dicts(RZKeys, RZValues)
    /\ rz_ov = <<>>
    /\ rz_pc = "call"
    /\ rz_res = <<>>
    /\ rz_again = <<>>

\* one call of razor, with the answers of o
RZCall ==
    /\ RZFrame
    /\ rz_pc = "call"
    /\ \E ov \in OracleAnswers(rz_idea, RZVerdicts) :
         /\ rz_ov' = ov
         /\ rz_res' = Razor(rz_idea, ov)
         /\ rz_pc' = IF Razor(rz_idea, ov).error = "" THEN "done" ELSE "raised"
    /\ UNCHANGED <<rz_idea, rz_again>>

\* a call of razor on the kept candidate of the call before, as select makes
\* it on the razored members (lines 171 and 108), with the answers of o
RZAgain ==
    /\ RZFrame
    /\ rz_pc = "done"
    /\ \E ov \in OracleAnswers(rz_res.kept, RZVerdicts) :
         /\ rz_again' = Razor(rz_res.kept, ov)
         /\ rz_pc' = IF Razor(rz_res.kept, ov).error = ""
                     THEN "again" ELSE "raised_again"
    /\ UNCHANGED <<rz_idea, rz_ov, rz_res>>

RZNext == RZCall \/ RZAgain

SpecRazor == RZInit /\ [][RZNext]_vars

\* C4: the dict razor returns has kept with exactly the keys of the idea it
\* was given, and an empty cut, whatever o answered.
C4_KeptCoversFields ==
    rz_pc = "done" =>
        /\ DOMAIN rz_res.kept = DOMAIN rz_idea
        /\ rz_res.cut = <<>>

\* a return where o failed on one field and answered on the other
C4_Witness ==
    /\ rz_pc = "done"
    /\ DOMAIN rz_idea = RZKeys
    /\ DOMAIN rz_ov = RZKeys
    /\ HasFailureMarker(rz_ov["a"])
    /\ ~HasFailureMarker(rz_ov["b"])
    /\ DOMAIN rz_res.kept = RZKeys

\* C5 (as claimed): razor returns for every candidate, also one with an empty
\* sequence, with a score >= 0 and at least one hypothesis per kept field.
C5_ScoreDefined ==
    /\ rz_pc = "raised" => rz_res.error # "ZeroDivisionError"
    /\ rz_pc = "done" =>
         /\ rz_res.score >= 0
         /\ \A k \in DOMAIN rz_res.kept : Hypotheses(rz_res.kept[k]) >= 1
         /\ rz_res.hypotheses_total >= Cardinality(DOMAIN rz_res.kept)

\* C30: razor submits no field whose value is a pair; a second razor, applied
\* to the kept candidate of a razor in which every call of o succeeded, calls
\* o for no field and returns a kept candidate equal to the one it was
\* given.  In general the second razor calls o for the fields whose verdict
\* carried a failure marker the first time, and for no other.
C30_NoSecondOpinion ==
    /\ rz_pc \in {"done", "again", "raised_again"} =>
          \A k \in DOMAIN rz_idea : IsTuple(rz_idea[k]) => k \notin DOMAIN rz_ov
    /\ rz_pc \in {"again", "raised_again"} =>
          /\ rz_again.calls <=
                 Cardinality({k \in DOMAIN rz_ov : HasFailureMarker(rz_ov[k])})
          /\ (\A k \in DOMAIN rz_ov : ~HasFailureMarker(rz_ov[k])) =>
                 /\ rz_pc = "again"
                 /\ rz_again.calls = 0
                 /\ rz_again.kept = rz_res.kept

\* a second razor after a first one whose two calls of o succeeded: no call,
\* the same kept candidate, and a lower score for the pairs
C30_Witness ==
    /\ rz_pc = "again"
    /\ DOMAIN rz_ov = RZKeys
    /\ \A k \in RZKeys : ~HasFailureMarker(rz_ov[k])
    /\ rz_again.calls = 0
    /\ rz_again.kept = rz_res.kept
    /\ rz_again.score < rz_res.score

\* the reference of C21: the length of a sequence, 1 for any other value
C21_N(value) == IF value.k \in {"list", "tuple"} THEN Len(value.e) ELSE 1

\* the reference of C21: whether the field is submitted to o
C21_Long(value) == value.k = "str" /\ Len(value.s) > 10

\* the reference of C21: what is kept for the field
C21_Kept(value, verdict) ==
    IF C21_Long(value) /\ ~HasFailureMarker(verdict)
    THEN Tuple(<<value, verdict>>) ELSE value

\* the reference of C21: the credit p/q of the field, as <<p, q>>
C21_Credit(value, verdict) ==
    IF C21_Long(value)
    THEN (IF HasFailureMarker(verdict) THEN <<1, 2>> ELSE <<1, 1>>)
    ELSE <<1, IF C21_N(value) > 1 THEN C21_N(value) ELSE 1>>

\* the reference of C21: the sum of the credits of the fields ks, as <<p, q>>
RECURSIVE C21_Sum(_, _, _)
C21_Sum(idea, ov, ks) ==
    IF ks = <<>> THEN <<0, 1>>
    ELSE LET k == Head(ks)
             c == C21_Credit(idea[k], IF k \in DOMAIN ov THEN ov[k] ELSE None)
             r == C21_Sum(idea, ov, Tail(ks))
         IN  <<c[1] * r[2] + r[1] * c[2], c[2] * r[2]>>

\* C21 (as claimed): for every candidate and every answer of o that is a
\* string, razor returns, and what it returns equals the reference: a field
\* holding a string of more than 10 characters is kept unchanged with 0.5
\* when the verdict carries a failure marker and becomes the pair (value,
\* verdict) with 1.0 otherwise; any other field is kept unchanged with
\* 1/max(1, n), n the length of a sequence and 1 otherwise, so that an empty
\* sequence adds 1 and does not fail; the score is the sum rounded to 3
\* decimals.
C21_RazorEqualsReference ==
    (/\ rz_pc \in {"done", "raised"}
     /\ \A k \in DOMAIN rz_ov : IsStr(rz_ov[k])) =>
        /\ rz_pc = "done"
        /\ rz_res.kept =
               [k \in DOMAIN rz_idea |->
                   C21_Kept(rz_idea[k], IF k \in DOMAIN rz_ov THEN rz_ov[k] ELSE None)]
        /\ LET sum == C21_Sum(rz_idea, rz_ov, KeysOf(rz_idea))
           IN  rz_res.score = Round3(sum[1], sum[2])

\* the same without the candidates that hold an empty sequence: what is left
\* of C21 agrees with razor
C21_ExceptEmptySequences ==
    (\A k \in DOMAIN rz_idea : C21_N(rz_idea[k]) > 0) => C21_RazorEqualsReference

-----------------------------------------------------------------------------
(* f.py: mutate *)

S_True  == <<"T", "r", "u", "e">>
S_False == <<"F", "a", "l", "s", "e">>
S_None  == <<"N", "o", "n", "e">>
S_alt   == <<"a", "l", "t", "_">>

\* str(v), or repr(v) when quoted: what an f-string writes for a value
RECURSIVE StrOf(_, _)
JoinReprs(es) ==
    IF es = <<>> THEN <<>>
    ELSE LET F[i \in 1..Len(es)] ==
                 IF i = 1 THEN StrOf(es[1], TRUE)
                 ELSE F[i - 1] \o <<",", " ">> \o StrOf(es[i], TRUE)
         IN  F[Len(es)]
StrOf(v, quoted) ==
    CASE v.k = "str"   -> IF quoted THEN <<"'">> \o v.s \o <<"'">> ELSE v.s
      [] v.k = "bool"  -> IF v.b THEN S_True ELSE S_False
      [] v.k = "int"   -> v.s
      [] v.k = "list"  -> <<"[">> \o JoinReprs(v.e) \o <<"]">>
      [] v.k = "tuple" -> <<"(">> \o JoinReprs(v.e)
                              \o (IF Len(v.e) = 1 THEN <<",">> ELSE <<>>) \o <<")">>
      [] OTHER         -> S_None

\* f"alt_{value}"
Alt(value) == Str(S_alt \o StrOf(value, FALSE))

MutationTypes == {"superposition", "simplify", "invert"}

SeedRate      == 300   \* f: rate of the mutations of the seed (0.3)
OffspringRate == 100   \* f: rate of the mutation of a survivor (0.1)

\* random.random() < rate, with random.random() in [0, 1): the outcomes
CoinOutcomes(rate) ==
    {c \in BOOLEAN : (c => rate > 0) /\ (~c => rate < 1000)}

\* what random draws for one field: the coin; then, only when the coin
\* lands, the mutation type; then, only for a collapse, the index chosen
FieldDraws(value, rate) ==
    {[coin |-> c, type |-> ty, pick |-> p] :
        c \in CoinOutcomes(rate), ty \in MutationTypes,
        p \in 1..(IF Len(value.e) > 1 THEN Len(value.e) ELSE 1)}
    \cap {d \in [coin : BOOLEAN, type : MutationTypes, pick : Nat] :
            /\ ~d.coin => d.type = "superposition"
            /\ ~(d.coin /\ d.type = "simplify" /\ IsTuple(value)) => d.pick = 1}

\* what random draws during one call of mutate(idea, rate)
Draws(idea, rate) ==
    {ch \in [DOMAIN idea -> [coin : BOOLEAN, type : MutationTypes, pick : 1..MaxTuple]] :
        \A k \in DOMAIN idea : ch[k] \in FieldDraws(idea[k], rate)}

MutateStart(idea) == [error |-> "", idea |-> idea, mutations |-> <<>>]

\* a mutate that adds an alternative to any value
MutateStep_anyvalue(acc, key, value, d) ==
    IF ~d.coin THEN acc
    ELSE IF d.type = "superposition"
    THEN [acc EXCEPT !.idea = Put(acc.idea, key, Tuple(<<value, Alt(value)>>)),
                     !.mutations = Append(acc.mutations, key \o ": +superposition")]
    ELSE IF d.type = "simplify" /\ IsTuple(value)
    THEN IF Len(value.e) = 0
         THEN [acc EXCEPT !.error = "IndexError"]
         ELSE [acc EXCEPT !.idea = Put(acc.idea, key, value.e[d.pick]),
                          !.mutations = Append(acc.mutations, key \o ": collapse")]
    ELSE IF d.type = "invert" /\ IsBool(value)
    THEN [acc EXCEPT !.idea = Put(acc.idea, key, Bool(~value.b)),
                     !.mutations = Append(acc.mutations, key \o ": invert")]
    ELSE acc

\* lines 75-95: the body of the loop for one field, given what random drew;
\* random.choice of an empty tuple raises IndexError
MutateStep(acc, key, value, d) ==
    IF ~d.coin THEN acc
    ELSE IF d.type = "superposition" /\ ~IsTuple(value)
    THEN [acc EXCEPT !.idea = Put(acc.idea, key, Tuple(<<value, Alt(value)>>)),
                     !.mutations = Append(acc.mutations, key \o ": +superposition")]
    ELSE IF d.type = "simplify" /\ IsTuple(value)
    THEN IF Len(value.e) = 0
         THEN [acc EXCEPT !.error = "IndexError"]
         ELSE [acc EXCEPT !.idea = Put(acc.idea, key, value.e[d.pick]),
                          !.mutations = Append(acc.mutations, key \o ": collapse")]
    ELSE IF d.type = "invert" /\ IsBool(value)
    THEN [acc EXCEPT !.idea = Put(acc.idea, key, Bool(~value.b)),
                     !.mutations = Append(acc.mutations, key \o ": invert")]
    ELSE acc

\* the loop over mutated.items(), from the keys ks on
RECURSIVE MutateLoop(_, _, _, _)
MutateLoop(idea, ch, ks, acc) ==
    IF ks = <<>> \/ acc.error # "" THEN acc
    ELSE MutateLoop(idea, ch, Tail(ks),
                    MutateStep(acc, Head(ks), idea[Head(ks)], ch[Head(ks)]))

\* mutate(idea, rate) when random draws ch: {"idea", "mutations"}, or the
\* exception in error
Mutate(idea, ch) == MutateLoop(idea, ch, KeysOf(idea), MutateStart(idea))

MUKeys == {"a", "b"}

MUValues ==
    { Str(S_s), Bool(TRUE), Bool(FALSE),
      Tuple(<<Str(S_s), Str(S_rest)>>),     \* a pair
      Tuple([i \in 1..MaxTuple |-> Str(Rep("s", i + 1))]),  \* the longest tuple
      Tuple(<<>>),                          \* an empty tuple
      List(<<Str(S_x), Str(S_y)>>) }        \* a list of two: not a pair

MUInit ==
    /\ RAIdle /\ RZIdle /\ SEIdle /\ FIdle /\ OCIdle /\ APIdle /\ DMIdle
    /\ EWIdle /\ MRIdle
    /\ AXIdle /\ HPIdle
    /\ mu_idea \in Dicts(MUKeys, MUValues)
    /\ mu_rate \in {SeedRate, OffspringRate}
    /\ mu_ch = <<>>
    /\ mu_pc = "call"
    /\ mu_res = <<>>

\* one call of mutate, with what random drew
MUCall ==
    /\ MUFrame
    /\ mu_pc = "call"
    /\ \E ch \in Draws(mu_idea, mu_rate) :
         /\ mu_ch' = ch
         /\ mu_res' = Mutate(mu_idea, ch)
         /\ mu_pc' = IF Mutate(mu_idea, ch).error = "" THEN "done" ELSE "raised"
    /\ UNCHANGED <<mu_idea, mu_rate>>

MUNext == MUCall

SpecMutate == MUInit /\ [][MUNext]_vars

\* whether the mutation type drawn applies to the value
C8_Applies(type, value) ==
    \/ type = "superposition" /\ ~IsTuple(value)
    \/ type = "simplify" /\ IsTuple(value)
    \/ type = "invert" /\ IsBool(value)

C8_Traced(key, what) ==
    \E i \in 1..Len(mu_res.mutations) : mu_res.mutations[i] = key \o what

-----------------------------------------------------------------------------
(* f.py: select *)

\* an insertion that puts x before the elements of equal score
InsertDesc_beforeequal(sorted, x) ==
    LET n == Cardinality({i \in 1..Len(sorted) : sorted[i][1] > x[1]})
    IN  SubSeq(sorted, 1, n) \o <<x>> \o SubSeq(sorted, n + 1, Len(sorted))

\* x put into a list sorted by key -score: after every element whose score
\* is at least its own (list.sort is stable)
InsertDesc(sorted, x) ==
    LET n == Cardinality({i \in 1..Len(sorted) : sorted[i][1] >= x[1]})
    IN  SubSeq(sorted, 1, n) \o <<x>> \o SubSeq(sorted, n + 1, Len(sorted))

\* a list left as it is
SortDesc_none(scored) == scored

\* scored.sort(key=lambda x: -x[0])
SortDesc(scored) ==
    LET F[i \in 0..Len(scored)] ==
            IF i = 0 THEN <<>> ELSE InsertDesc(F[i - 1], scored[i])
    IN  F[Len(scored)]

\* the razor of each member, when o answers ovs[i] during the i-th
Razors(population, ovs) == [i \in 1..Len(population) |-> Razor(population[i], ovs[i])]

\* the first exception among the calls of razor, or ""
FirstError(razors) ==
    LET bad == {i \in 1..Len(razors) : razors[i].error # ""}
    IN  IF bad = {} THEN ""
        ELSE razors[CHOOSE i \in bad : \A j \in bad : i <= j].error

\* scored[:len(scored)//2 + 1]
TopHalf(scored) == SubSeq(scored, 1,
    IF Len(scored) \div 2 + 1 < Len(scored) THEN Len(scored) \div 2 + 1
    ELSE Len(scored))

\* select(population) when o answers ovs[i] during the razor of member i:
\* the survivors, or the exception in error
Select(population, ovs) ==
    LET razors == Razors(population, ovs)
        scored == [i \in 1..Len(population) |-> <<razors[i].score, population[i]>>]
        top    == TopHalf(SortDesc(scored))
    IN  IF FirstError(razors) # ""
        THEN [error |-> FirstError(razors), survivors |-> <<>>]
        ELSE [error |-> "", survivors |-> [i \in 1..Len(top) |-> top[i][2]]]

\* the answers of o to the razors of a population, one function per member
OracleAnswersAll(population, verdicts) ==
    LET calls == {<<i, k>> \in (1..Len(population)) \X (UNION {DOMAIN population[i] :
                                                    i \in 1..Len(population)}) :
                     k \in OracleKeys(population[i])}
    IN  {[i \in 1..Len(population) |->
            [k \in OracleKeys(population[i]) |-> c[<<i, k>>]]] :
         c \in [calls -> verdicts]}

\* the values o answers with in the runs of select and f
FVerdicts == {Str(S_rest), Str(S_timeout), None}

SEPool ==
    { [a |-> Str(S_s)],                       \* scores 1
      [b |-> Str(S_s)],                       \* scores 1 as well
      [a |-> Str(S_eleven)],                  \* 0.5 or 1, as o answers
      [a |-> Tuple(<<Str(S_s), Str(S_rest)>>)],   \* 0.5
      [a |-> Str(S_s), b |-> Bool(TRUE)] }    \* 2

SEInit ==
    /\ RAIdle /\ RZIdle /\ MUIdle /\ FIdle /\ OCIdle /\ APIdle /\ DMIdle
    /\ EWIdle /\ MRIdle
    /\ AXIdle /\ HPIdle
    /\ se_pop \in UNION {[1..n -> SEPool] : n \in 0..MaxPop}
    /\ se_ovs = <<>>
    /\ se_pc = "call"
    /\ se_res = <<>>

\* one call of select, with the answers of o
SECall ==
    /\ SEFrame
    /\ se_pc = "call"
    /\ \E ovs \in OracleAnswersAll(se_pop, FVerdicts) :
         /\ se_ovs' = ovs
         /\ se_res' = Select(se_pop, ovs)
         /\ se_pc' = IF Select(se_pop, ovs).error = "" THEN "done" ELSE "raised"
    /\ UNCHANGED se_pop

SENext == SECall

SpecSelect == SEInit /\ [][SENext]_vars

\* C9 (as claimed): select returns ceil(n / 2) survivors of a population of
\* n >= 1.
C9_CeilHalf ==
    (se_pc = "done" /\ Len(se_pop) >= 1) =>
        Len(se_res.survivors) = (Len(se_pop) + 1) \div 2

\* the fresh score of member i in the call of select that returned
C10_Score(i) == Razor(se_pop[i], se_ovs[i]).score

\* C10: the survivors are members of the population, unmodified, each taken
\* once, in the order of non-increasing fresh score, members of equal score
\* in their order in the population; no member left out scores higher than
\* a survivor.
C10_SortedStableMembers ==
    se_pc = "done" =>
      \E idx \in [1..Len(se_res.survivors) -> 1..Len(se_pop)] :
        /\ \A j \in DOMAIN idx : se_res.survivors[j] = se_pop[idx[j]]
        /\ \A j, k \in DOMAIN idx : j < k =>
             /\ idx[j] # idx[k]
             /\ C10_Score(idx[j]) >= C10_Score(idx[k])
             /\ C10_Score(idx[j]) = C10_Score(idx[k]) => idx[j] < idx[k]
        /\ \A i \in 1..Len(se_pop) : \A j \in DOMAIN idx :
             (\A k \in DOMAIN idx : idx[k] # i) => C10_Score(idx[j]) >= C10_Score(i)

\* a return with two survivors of equal score, the first of which is not the
\* first member, and a member of lower score left out
C10_Witness ==
    /\ se_pc = "done"
    /\ Len(se_pop) = 3
    /\ Len(se_res.survivors) = 2
    /\ C10_Score(1) < C10_Score(2)
    /\ C10_Score(2) = C10_Score(3)
    /\ se_pop[2] # se_pop[3]
    /\ se_res.survivors = <<se_pop[2], se_pop[3]>>

-----------------------------------------------------------------------------
(* f.py: check_axioms *)

\* idea.get(key)
Get(idea, key) == IF key \in DOMAIN idea THEN idea[key] ELSE None

\* whether the axiom numbered n is violated
Violates(idea, n) ==
    CASE n = 1 -> Truthy(Get(idea, "requires_api")) /\ ~Truthy(Get(idea, "ollama"))
      [] n = 2 -> Truthy(Get(idea, "force_choice"))
      [] n = 5 -> Truthy(Get(idea, "static")) \/ Truthy(Get(idea, "immutable"))
      [] n = 6 -> Truthy(Get(idea, "single_source"))
      [] OTHER -> FALSE

\* a check that stops at the first axiom violated
CheckAxioms_first(idea) ==
    LET violations == SelectSeq(<<1, 2, 5, 6>>, LAMBDA n : Violates(idea, n))
    IN  [valid |-> Len(violations) = 0, violations |-> Take(violations, 1)]

\* check_axioms(idea): (valid, violations)
CheckAxioms(idea) ==
    LET violations == SelectSeq(<<1, 2, 5, 6>>, LAMBDA n : Violates(idea, n))
    IN  [valid |-> Len(violations) = 0, violations |-> violations]

\* the candidates given to check_axioms: every choice of the six keys the
\* axioms read, each absent, True or False; and values that are no booleans
AXKeys == {"requires_api", "ollama", "force_choice", "static", "immutable",
           "single_source"}

AXIdeas ==
    Dicts(AXKeys, {Bool(TRUE), Bool(FALSE)})
    \cup { [force_choice |-> Tuple(<<Bool(FALSE), Alt(Bool(FALSE))>>)],
           [static |-> Str(<<>>), immutable |-> Str(S_s)],
           [requires_api |-> Str(S_s), ollama |-> None],
           [requires_api |-> Str(S_s), ollama |-> Str(S_s)],
           [single_source |-> List(<<>>), a |-> Bool(TRUE)] }

AXInit ==
    /\ RAIdle /\ RZIdle /\ MUIdle /\ SEIdle /\ FIdle /\ OCIdle /\ APIdle
    /\ EWIdle /\ MRIdle
    /\ DMIdle /\ HPIdle
    /\ ax_idea \in AXIdeas
    /\ ax_pc = "call"
    /\ ax_res = <<>>

\* one call of check_axioms
AXCall ==
    /\ AXFrame
    /\ ax_pc = "call"
    /\ ax_res' = CheckAxioms(ax_idea)
    /\ ax_pc' = "done"
    /\ UNCHANGED ax_idea

AXNext == AXCall

SpecAxioms == AXInit /\ [][AXNext]_vars

\* whether the candidate holds the key with a value that counts as true
C23_On(key) == key \in DOMAIN ax_idea /\ Truthy(ax_idea[key])

\* whether the predicate of the axiom fires on the candidate
C23_Fires(n) ==
    \/ n = 1 /\ C23_On("requires_api") /\ ~C23_On("ollama")
    \/ n = 2 /\ C23_On("force_choice")
    \/ n = 5 /\ (C23_On("static") \/ C23_On("immutable"))
    \/ n = 6 /\ C23_On("single_source")

-----------------------------------------------------------------------------
(* o.py: occam and o.  The text the backend writes is a sequence of       *)
(* characters; find, rfind, strip, the slice and json.loads are computed  *)
(* on it.                                                                  *)

\* a JSON number: its digits
Num(d) == [k |-> "int", s |-> d, b |-> FALSE, e |-> <<>>]

\* a dict with str keys: its items, in insertion order
DHas(d, key) == \E i \in 1..Len(d) : d[i].key = key
DGet(d, key) == d[CHOOSE i \in 1..Len(d) : d[i].key = key].value
DPut(d, key, value) ==
    IF DHas(d, key)
    THEN [i \in 1..Len(d) |-> IF d[i].key = key
                              THEN [key |-> key, value |-> value] ELSE d[i]]
    ELSE Append(d, [key |-> key, value |-> value])

K_verdict == <<"v", "e", "r", "d", "i", "c", "t">>
K_simplest == <<"s", "i", "m", "p", "l", "e", "s", "t">>
K_raw == <<"r", "a", "w">>
K_error == <<"e", "r", "r", "o", "r">>

RawLen == 500      \* o: the length the raw text is cut to

IsWs(c) == c \in {" ", "\n"}

\* s.strip()
Strip(s) ==
    LET keep == {i \in 1..Len(s) : ~IsWs(s[i])}
    IN  IF keep = {} THEN <<>>
        ELSE SubSeq(s, CHOOSE i \in keep : \A j \in keep : i <= j,
                       CHOOSE i \in keep : \A j \in keep : j <= i)

\* s.find(c) and s.rfind(c): an index from 0, or -1
Find(s, c) ==
    LET at == {i \in 1..Len(s) : s[i] = c}
    IN  IF at = {} THEN -1 ELSE (CHOOSE i \in at : \A j \in at : i <= j) - 1
RFind(s, c) ==
    LET at == {i \in 1..Len(s) : s[i] = c}
    IN  IF at = {} THEN -1 ELSE (CHOOSE i \in at : \A j \in at : j <= i) - 1

\* json.loads, for the documents of the runs: an object whose members are
\* strings without escapes, null, true, false, numbers of digits and []
JsonFail == [ok |-> FALSE, value |-> None, next |-> 0]

Digits == {"0", "1", "2", "3", "4", "5", "6", "7", "8", "9"}

\* the first position from i on that holds no white space
SkipWs(s, i) ==
    CHOOSE j \in i..(Len(s) + 1) :
        /\ j = Len(s) + 1 \/ ~IsWs(s[j])
        /\ \A h \in i..(j - 1) : IsWs(s[h])

\* whether the characters of w stand at position i
At(s, i, w) == i + Len(w) - 1 <= Len(s) /\ SubSeq(s, i, i + Len(w) - 1) = w

\* the string that opens at position i
JsonString(s, i) ==
    LET close == {j \in (i + 1)..Len(s) : s[j] = "\""}
    IN  IF close = {} THEN JsonFail
        ELSE LET j == CHOOSE c \in close : \A d \in close : c <= d
                 text == SubSeq(s, i + 1, j - 1)
             IN  IF \E h \in 1..Len(text) : text[h] \in {"\n", "\\"}
                 THEN JsonFail
                 ELSE [ok |-> TRUE, value |-> Str(text), next |-> j + 1]

\* the number that starts at position i
JsonNumber(s, i) ==
    LET j == CHOOSE n \in i..(Len(s) + 1) :
                 /\ n = Len(s) + 1 \/ s[n] \notin Digits
                 /\ \A h \in i..(n - 1) : s[h] \in Digits
    IN  IF j - i > 1 /\ s[i] = "0" THEN JsonFail
        ELSE [ok |-> TRUE, value |-> Num(SubSeq(s, i, j - 1)), next |-> j]

\* the value that starts at position i
JsonValue(s, i) ==
    IF i > Len(s) THEN JsonFail
    ELSE IF s[i] = "\"" THEN JsonString(s, i)
    ELSE IF At(s, i, <<"n", "u", "l", "l">>)
    THEN [ok |-> TRUE, value |-> None, next |-> i + 4]
    ELSE IF At(s, i, <<"t", "r", "u", "e">>)
    THEN [ok |-> TRUE, value |-> Bool(TRUE), next |-> i + 4]
    ELSE IF At(s, i, <<"f", "a", "l", "s", "e">>)
    THEN [ok |-> TRUE, value |-> Bool(FALSE), next |-> i + 5]
    ELSE IF s[i] \in Digits THEN JsonNumber(s, i)
    ELSE IF s[i] = "[" /\ At(s, SkipWs(s, i + 1), <<"]">>)
    THEN [ok |-> TRUE, value |-> List(<<>>), next |-> SkipWs(s, i + 1) + 1]
    ELSE JsonFail

\* the members of the object from position i on; acc is the dict so far
RECURSIVE JsonMembers(_, _, _)
JsonMembers(s, i, acc) ==
    IF ~At(s, i, <<"\"">>) THEN JsonFail
    ELSE LET name == JsonString(s, i)
         IN  IF ~name.ok THEN JsonFail
             ELSE LET colon == SkipWs(s, name.next)
                  IN  IF ~At(s, colon, <<":">>) THEN JsonFail
                      ELSE LET v == JsonValue(s, SkipWs(s, colon + 1))
                           IN  IF ~v.ok THEN JsonFail
                               ELSE LET n == SkipWs(s, v.next)
                                        d == DPut(acc, name.value.s, v.value)
                                    IN  IF At(s, n, <<",">>)
                                        THEN JsonMembers(s, SkipWs(s, n + 1), d)
                                        ELSE IF At(s, n, <<"}">>) /\ n = Len(s)
                                        THEN [ok |-> TRUE, value |-> d, next |-> n + 1]
                                        ELSE JsonFail

\* json.loads(s) for a text that opens with { and closes with }
JsonLoads(s) ==
    LET i == SkipWs(s, 2)
    IN  IF At(s, i, <<"}">>)
        THEN (IF i = Len(s) THEN [ok |-> TRUE, value |-> <<>>, next |-> i + 1]
              ELSE JsonFail)
        ELSE JsonMembers(s, i, <<>>)

\* lines 57-69: the analysis of what the backend wrote
Analysis(stdout) ==
    LET response == Strip(stdout)
        start == Find(response, "{")
        end == RFind(response, "}") + 1
        \* "JSON parse failed" and "no JSON found"
        failed == <<"J", "S", "O", "N", " ", "p", "a", "r", "s", "e", " ", "f", "a", "i",
                    "l", "e", "d">>
        nojson == <<"n", "o", " ", "J", "S", "O", "N", " ", "f", "o", "u", "n", "d">>
    IN  IF start >= 0 /\ end > start
        THEN LET loaded == JsonLoads(SubSeq(response, start + 1, end))
             IN  IF loaded.ok THEN loaded.value
                 ELSE <<[key |-> K_raw, value |-> Str(response)],
                        [key |-> K_error, value |-> Str(failed)]>>
        ELSE <<[key |-> K_raw, value |-> Str(response)],
               [key |-> K_error, value |-> Str(nojson)]>>

\* f"{key}: {value}", the claim razor submits for a field; the keys of the
\* runs are one character long
ClaimOf(key, value) == <<key>> \o <<":", " ">> \o value.s

\* the prompt of the claim: the instructions are cut to their first and
\* their last line
Prompt(claim) ==
    \* "RASOIR D'OCKHAM\n\n", the claim in quotes, "\n\nSois honnête."
    <<"R", "A", "S", "O", "I", "R", " ", "D", "'", "O", "C", "K", "H", "A",
      "M", "\n", "\n">>
        \o <<"\"">> \o claim \o <<"\"">>
        \o <<"\n", "\n", "S", "o", "i", "s", " ", "h", "o", "n", "n", "ê", "t", "e",
          ".">>

\* str(e) of subprocess.TimeoutExpired
TimeoutMessage(claim) ==
    \* "Command '", the repr of the arguments, "' timed out after 60 seconds"
    <<"C", "o", "m", "m", "a", "n", "d", " ", "'">>
        \o StrOf(List(<<Str(<<"o", "l", "l", "a", "m", "a">>),
                        Str(<<"r", "u", "n">>),
                        Str(<<"l", "l", "a", "m", "a", "3", ".", "1", ":", "8", "b">>),
                        Str(Prompt(claim))>>), TRUE)
        \o <<"'", " ", "t", "i", "m", "e", "d", " ", "o", "u", "t", " ", "a", "f",
          "t", "e", "r", " ", "6", "0", " ", "s", "e", "c", "o", "n", "d",
          "s">>

\* lines 50-72: the analysis occam builds, for what the backend does
Occam(backend, claim) ==
    CASE backend.kind = "timeout" ->
             <<[key |-> K_error, value |-> Str(TimeoutMessage(claim))]>>
      [] backend.kind = "oserror" ->
             \* "[Errno 2] No such file or directory: 'ollama'"
             <<[key |-> K_error,
                value |-> Str(<<"[", "E", "r", "r", "n", "o", " ", "2", "]", " ", "N", "o", " ", "s",
                            "u", "c", "h", " ", "f", "i", "l", "e", " ",
                            "o", "r", " ", "d", "i", "r", "e", "c", "t",
                            "o", "r", "y", ":", " ", "'", "o", "l", "l",
                            "a", "m", "a", "'">>)]>>
      [] OTHER -> Analysis(backend.stdout)

\* str(result) of a dict
DictStr(d) ==
    LET Item(i) == StrOf(Str(d[i].key), TRUE) \o <<":", " ">>
                       \o StrOf(d[i].value, TRUE)
        F[i \in 0..Len(d)] ==
            IF i = 0 THEN <<>>
            ELSE IF i = 1 THEN Item(1)
            ELSE F[i - 1] \o <<",", " ">> \o Item(i)
    IN  <<"{">> \o F[Len(d)] \o <<"}">>

\* lines 92-99: the value o returns for the analysis
O(result) ==
    IF DHas(result, K_verdict) THEN DGet(result, K_verdict)
    ELSE IF DHas(result, K_simplest) THEN DGet(result, K_simplest)
    ELSE IF DHas(result, K_raw)
    THEN Str(Take(DGet(result, K_raw).s, RawLen))
    ELSE Str(DictStr(result))

\* a write that opens the log with "w": the entry replaces what was there
LogWrite_truncate(log, entry, ok) ==
    [raised |-> FALSE, log |-> IF ok THEN <<entry>> ELSE log]

\* a write of the log whose failure is raised
LogWrite_raise(log, entry, ok) ==
    [raised |-> ~ok, log |-> IF ok THEN Append(log, entry) ELSE log]

\* lines 81-85: the append of one line to the log, which succeeds or fails;
\* a failure is passed over
LogWrite(log, entry, ok) ==
    [raised |-> FALSE, log |-> IF ok THEN Append(log, entry) ELSE log]

\* what the backend writes to stdout in the runs

OCOutputs ==
    \* a verdict: {"verdict":"rest"}\n
    { <<"{", "\"", "v", "e", "r", "d", "i", "c", "t", "\"", ":", "\"", "r",
        "e", "s", "t", "\"", "}", "\n">>,
    \* JSON inside a text: ok {"simplest": "x", "verdict": "rest"} bye\n
      <<"o", "k", " ", "{", "\"", "s", "i", "m", "p", "l", "e", "s", "t",
        "\"", ":", " ", "\"", "x", "\"", ",", " ", "\"", "v", "e", "r",
        "d", "i", "c", "t", "\"", ":", " ", "\"", "r", "e", "s", "t", "\"",
        "}", " ", "b", "y", "e", "\n">>,
    \* a null verdict: {"verdict":null}
      <<"{", "\"", "v", "e", "r", "d", "i", "c", "t", "\"", ":", "n", "u",
        "l", "l", "}">>,
    \* a number for a verdict: {"verdict":7}
      <<"{", "\"", "v", "e", "r", "d", "i", "c", "t", "\"", ":", "7", "}">>,
    \* an empty verdict: {"verdict":""}
      <<"{", "\"", "v", "e", "r", "d", "i", "c", "t", "\"", ":", "\"",
        "\"", "}">>,
    \* a verdict that holds a marker: {"verdict":"[erreur: boom]"}
      <<"{", "\"", "v", "e", "r", "d", "i", "c", "t", "\"", ":", "\"", "[",
        "e", "r", "r", "e", "u", "r", ":", " ", "b", "o", "o", "m", "]",
        "\"", "}">>,
    \* no verdict, but simplest: {"simplest":"rest"}
      <<"{", "\"", "s", "i", "m", "p", "l", "e", "s", "t", "\"", ":", "\"",
        "r", "e", "s", "t", "\"", "}">>,
    \* neither verdict nor simplest: {"hypotheses":[]}
      <<"{", "\"", "h", "y", "p", "o", "t", "h", "e", "s", "e", "s", "\"",
        ":", "[", "]", "}">>,
    \* a text without JSON: rest\n
      <<"r", "e", "s", "t", "\n">>,
    \* white space only:  \n
      <<" ", "\n">>,
    \* braces around no JSON: {rest}
      <<"{", "r", "e", "s", "t", "}">>,
    \* braces the wrong way round: }{
      <<"}", "{">>,
    \* JSON followed by a brace: {"verdict":"rest"}}
      <<"{", "\"", "v", "e", "r", "d", "i", "c", "t", "\"", ":", "\"", "r",
        "e", "s", "t", "\"", "}", "}">>,
    \* nothing: (empty)
      <<>> }

\* what the call of ollama does: it runs out of time, it cannot be started,
\* or it ends (with any exit status) having written stdout
OCBackends ==
    {[kind |-> "timeout", stdout |-> <<>>], [kind |-> "oserror", stdout |-> <<>>]}
    \cup {[kind |-> "exit", stdout |-> out] : out \in OCOutputs}

\* the long values of the field "b" whose claim is submitted
OCFields == {Str(S_eleven), Str(S_eleven \o TIMEOUT_MARK)}

OCInit ==
    /\ RAIdle /\ RZIdle /\ MUIdle /\ SEIdle /\ FIdle /\ APIdle /\ DMIdle
    /\ EWIdle /\ MRIdle
    /\ AXIdle /\ HPIdle
    /\ oc_field \in OCFields
    /\ oc_backend \in OCBackends
    /\ oc_pc = "run"
    /\ oc_analysis = <<>>
    /\ oc_log = <<>>
    /\ oc_ret = <<>>
    /\ oc_razor = <<>>

\* lines 50-72: the call of the backend and the analysis of its answer
OccamRun ==
    /\ OCFrame
    /\ oc_pc = "run"
    /\ oc_analysis' = Occam(oc_backend, ClaimOf("b", oc_field))
    /\ oc_pc' = "log"
    /\ UNCHANGED <<oc_field, oc_backend, oc_log, oc_ret, oc_razor>>

\* lines 75-87: the entry of the log, and the return of the analysis
OccamLog ==
    /\ OCFrame
    /\ oc_pc = "log"
    /\ \E ok \in BOOLEAN :
         LET entry == [claim |-> ClaimOf("b", oc_field), analysis |-> oc_analysis]
             w == LogWrite(oc_log, entry, ok)
         IN  /\ oc_log' = w.log
             /\ oc_pc' = IF w.raised THEN "raised" ELSE "return"
    /\ UNCHANGED <<oc_field, oc_backend, oc_analysis, oc_ret, oc_razor>>

\* lines 91-99: o picks the value it returns
OReturn ==
    /\ OCFrame
    /\ oc_pc = "return"
    /\ oc_ret' = O(oc_analysis)
    /\ oc_pc' = "razor"
    /\ UNCHANGED <<oc_field, oc_backend, oc_analysis, oc_log, oc_razor>>

\* f.py lines 41-48: razor reads the verdict of the field "b"
ORazor ==
    /\ OCFrame
    /\ oc_pc = "razor"
    /\ oc_razor' = RazorStep(RazorStart, "b", oc_field, oc_ret)
    /\ oc_pc' = IF RazorStep(RazorStart, "b", oc_field, oc_ret).error # ""
                THEN "raised" ELSE "done"
    /\ UNCHANGED <<oc_field, oc_backend, oc_analysis, oc_log, oc_ret>>

OCNext == OccamRun \/ OccamLog \/ OReturn \/ ORazor

SpecOracle == OCInit /\ [][OCNext]_vars

\* the call of the backend failed otherwise than by running out of time: it
\* could not be started, what it wrote holds no JSON or JSON that does not
\* parse, or its verdict is not a text
C11_Failed ==
    \/ oc_backend.kind = "oserror"
    \/ /\ oc_backend.kind = "exit"
       /\ \/ DHas(oc_analysis, K_error)
          \/ DHas(oc_analysis, K_verdict) /\ ~IsStr(DGet(oc_analysis, K_verdict))

\* C11: whatever the backend does, o returns a string without raising; the
\* string carries "[timeout" when the call ran out of time and "[erreur" when
\* it failed otherwise, and razor then takes its failure branch for the
\* field: it keeps the value unchanged.
C11_FailureCarriesMarker ==
    oc_pc \in {"razor", "done", "raised"} =>
        /\ IsStr(oc_ret)
        /\ oc_backend.kind = "timeout" => In(TIMEOUT_MARK, oc_ret)
        /\ C11_Failed => In(ERREUR_MARK, oc_ret)
        /\ (oc_backend.kind = "timeout" \/ C11_Failed) =>
               /\ oc_pc # "raised"
               /\ oc_pc = "done" => oc_razor.kept = Put(EmptyDict, "b", oc_field)

\* C12: when the backend writes nothing (or white space only), o does not
\* return the empty string, and razor does not count the field as a success:
\* it does not keep the pair (value, "") with 1 added to the score.
C12_EmptyIsNotSuccess ==
    (/\ oc_pc = "done"
     /\ oc_backend.kind = "exit"
     /\ Strip(oc_backend.stdout) = <<>>) =>
        /\ oc_ret # Str(<<>>)
        /\ oc_razor.kept # Put(EmptyDict, "b", Tuple(<<oc_field, Str(<<>>)>>))
        /\ Round3(oc_razor.num, oc_razor.den) # 1000

-----------------------------------------------------------------------------
(* f.py: f *)

SeedVariants == 5  \* f: the mutated variants of the seed in the first population

\* a validation without the fallback
ValidPop_nofallback(razored_pop) ==
    SelectSeq(razored_pop, LAMBDA idea : CheckAxioms(idea).valid)

\* a fallback that keeps every razored member
ValidPop_keepall(razored_pop) ==
    LET valid_pop == SelectSeq(razored_pop, LAMBDA idea : CheckAxioms(idea).valid)
    IN  IF Len(valid_pop) = 0 THEN razored_pop ELSE valid_pop

\* lines 174-182: the members that pass check_axioms, or razored_pop[:1]
ValidPop(razored_pop) ==
    LET valid_pop == SelectSeq(razored_pop, LAMBDA idea : CheckAxioms(idea).valid)
    IN  IF Len(valid_pop) = 0
        THEN SubSeq(razored_pop, 1, IF Len(razored_pop) < 1 THEN Len(razored_pop) ELSE 1)
        ELSE valid_pop

\* a loop that makes one generation less
LoopHead_short(gen, generations, population) ==
    IF gen + 1 < generations
    THEN (IF Len(population) = 0 THEN "validate" ELSE "razor")
    ELSE (IF Len(population) = 0 THEN "final" ELSE "rescore")

\* for gen in range(generations): the stage after gen generations; a loop
\* over an empty population is skipped
LoopHead(gen, generations, population) ==
    IF gen < generations
    THEN (IF Len(population) = 0 THEN "validate" ELSE "razor")
    ELSE (IF Len(population) = 0 THEN "final" ELSE "rescore")

FCheapSeeds ==
    { [force_choice |-> Bool(TRUE)],     \* violates axiom 2 until inverted
      [static |-> Str(S_eleven)],        \* violates axiom 5, whatever mutates;
                                         \* its field goes to o
      EmptyDict }                        \* no field at all
FSeeds == FCheapSeeds \cup
    { [a |-> Str(S_ten)],                \* valid; its alternative goes to o
      [a |-> Str(S_eleven)] }            \* valid; its field goes to o

\* the generation budget of the runs from the valid seed of ten characters:
\* their populations vary most (every alternative goes to o), and a second
\* generation of them alone is over a million states
ValidSeedGen == 1

\* the calls f(input_data, generations) made: the populations of the valid
\* seeds vary more, and their generation budget is kept smaller
FCalls ==
    (FCheapSeeds \X (0..MaxGen))
    \cup ({[a |-> Str(S_ten)]} \X (0..ValidSeedGen))
    \cup ({[a |-> Str(S_eleven)]} \X {0})

\* the state when f(input_data, generations) is entered, for one of the
\* calls, an oracle that answers with the values verdicts, and one of the
\* logs as earlier runs have left evolution.jsonl
FEnter(calls, verdicts, logs) ==
    /\ RAIdle /\ RZIdle /\ MUIdle /\ SEIdle /\ OCIdle /\ APIdle /\ DMIdle
    /\ EWIdle /\ MRIdle
    /\ AXIdle /\ HPIdle
    /\ \E call \in calls : f_input = call[1] /\ f_generations = call[2]
    /\ f_verdicts = verdicts
    /\ f_cancel = FALSE
    /\ f_log \in logs
    /\ f_population = <<f_input>>
    /\ f_gen = 0
    /\ f_razored = <<>>
    /\ f_valid = <<>>
    /\ f_scored = <<>>
    /\ f_survivors = <<>>
    /\ f_new = <<>>
    /\ f_history = <<>>
    /\ f_final = <<>>
    /\ f_pc = "seed"
    /\ f_result = <<>>
    /\ f_error = NoError

\* the same with an empty log
FStart(calls, verdicts) == FEnter(calls, verdicts, {<<>>})

FInit == FStart(FCalls, FVerdicts)

\* lines 160-162: one more mutated variant of the seed
FSeed ==
    /\ FFrame
    /\ f_pc = "seed"
    /\ \E ch \in Draws(f_input, SeedRate) :
         LET mutated == Mutate(f_input, ch)
             population == Append(f_population, mutated.idea)
         IN  IF mutated.error # ""
             THEN /\ f_pc' = "raised"
                  /\ f_error' = [type |-> mutated.error, at |-> "seed"]
                  /\ UNCHANGED f_population
             ELSE /\ f_population' = population
                  /\ f_pc' = IF Len(population) = 1 + SeedVariants
                             THEN LoopHead(f_gen, f_generations, population)
                             ELSE "seed"
                  /\ UNCHANGED f_error
    /\ UNCHANGED <<f_input, f_generations, f_gen, f_razored, f_valid, f_scored,
                   f_survivors, f_new, f_history, f_final, f_result>>

\* lines 169-171: the razor of the next member of the population
FRazor ==
    /\ FFrame
    /\ f_pc = "razor"
    /\ LET idea == f_population[Len(f_razored) + 1]
       IN  \E ov \in OracleAnswers(idea, f_verdicts) :
             LET r == Razor(idea, ov)
                 razored_pop == Append(f_razored, r.kept)
             IN  IF r.error # ""
                 THEN /\ f_pc' = "raised"
                      /\ f_error' = [type |-> r.error, at |-> "razor"]
                      /\ UNCHANGED f_razored
                 ELSE /\ f_razored' = razored_pop
                      /\ f_pc' = IF Len(razored_pop) = Len(f_population)
                                 THEN "validate" ELSE "razor"
                      /\ UNCHANGED f_error
    /\ UNCHANGED <<f_input, f_generations, f_population, f_gen, f_valid,
                   f_scored, f_survivors, f_new, f_history, f_final, f_result>>

\* lines 174-182: the axioms on every razored member, and the fallback; then
\* the call of select (line 185), whose loop an empty list skips
FValidate ==
    /\ FFrame
    /\ f_pc = "validate"
    /\ f_valid' = ValidPop(f_razored)
    /\ f_scored' = <<>>
    /\ f_pc' = IF Len(ValidPop(f_razored)) = 0 THEN "select" ELSE "score"
    /\ UNCHANGED <<f_input, f_generations, f_population, f_gen, f_razored,
                   f_survivors, f_new, f_history, f_final, f_result, f_error>>

\* lines 107-109, in the call select(valid_pop): the razor of the next member
FScore ==
    /\ FFrame
    /\ f_pc = "score"
    /\ LET idea == f_valid[Len(f_scored) + 1]
       IN  \E ov \in OracleAnswers(idea, f_verdicts) :
             LET razored == Razor(idea, ov)
                 scored == Append(f_scored, <<razored.score, idea>>)
             IN  IF razored.error # ""
                 THEN /\ f_pc' = "raised"
                      /\ f_error' = [type |-> razored.error, at |-> "select"]
                      /\ UNCHANGED f_scored
                 ELSE /\ f_scored' = scored
                      /\ f_pc' = IF Len(scored) = Len(f_valid)
                                 THEN "select" ELSE "score"
                      /\ UNCHANGED f_error
    /\ UNCHANGED <<f_input, f_generations, f_population, f_gen, f_razored,
                   f_valid, f_survivors, f_new, f_history, f_final, f_result>>

\* lines 112-117, in the call select(valid_pop): the sort and the survivors
FSelect ==
    /\ FFrame
    /\ f_pc = "select"
    /\ LET top == TopHalf(SortDesc(f_scored))
           survivors == [i \in 1..Len(top) |-> top[i][2]]
       IN  /\ f_survivors' = survivors
           /\ f_pc' = IF Len(survivors) = 0 THEN "log" ELSE "offspring"
    /\ f_new' = <<>>
    /\ UNCHANGED <<f_input, f_generations, f_population, f_gen, f_razored,
                   f_valid, f_scored, f_history, f_final, f_result, f_error>>

\* lines 189-193: the next survivor and its mutated offspring
FOffspring ==
    /\ FFrame
    /\ f_pc = "offspring"
    /\ LET survivor == f_survivors[Len(f_new) \div 2 + 1]
       IN  \E ch \in Draws(survivor, OffspringRate) :
             LET mutated == Mutate(survivor, ch)
                 new_population == f_new \o <<survivor, mutated.idea>>
             IN  IF mutated.error # ""
                 THEN /\ f_pc' = "raised"
                      /\ f_error' = [type |-> mutated.error, at |-> "offspring"]
                      /\ UNCHANGED f_new
                 ELSE /\ f_new' = new_population
                      /\ f_pc' = IF Len(new_population) = 2 * Len(f_survivors)
                                 THEN "log" ELSE "offspring"
                      /\ UNCHANGED f_error
    /\ UNCHANGED <<f_input, f_generations, f_population, f_gen, f_razored,
                   f_valid, f_scored, f_survivors, f_history, f_final, f_result>>

\* lines 195-204: population = new_population, and the entry of history;
\* population[0] of an empty population raises IndexError
FLog ==
    /\ FFrame
    /\ f_pc = "log"
    /\ f_population' = f_new
    /\ IF Len(f_new) = 0
       THEN /\ f_pc' = "raised"
            /\ f_error' = [type |-> "IndexError", at |-> "log"]
            /\ UNCHANGED <<f_gen, f_history, f_razored>>
       ELSE \E ov \in OracleAnswers(f_new[1], f_verdicts) :
              LET best == Razor(f_new[1], ov)
              IN  IF best.error # ""
                  THEN /\ f_pc' = "raised"
                       /\ f_error' = [type |-> best.error, at |-> "log"]
                       /\ UNCHANGED <<f_gen, f_history, f_razored>>
                  ELSE /\ f_history' = Append(f_history,
                              [gen |-> f_gen, pop_size |-> Len(f_new),
                               best_score |-> best.score,
                               best_hypotheses |-> best.hypotheses_total])
                       /\ f_gen' = f_gen + 1
                       /\ f_razored' = <<>>
                       /\ f_pc' = LoopHead(f_gen + 1, f_generations, f_new)
                       /\ UNCHANGED f_error
    /\ UNCHANGED <<f_input, f_generations, f_valid, f_scored, f_survivors,
                   f_new, f_final, f_result>>

\* line 207: the razor of the next member of the last population
FRescore ==
    /\ FFrame
    /\ f_pc = "rescore"
    /\ LET idea == f_population[Len(f_final) + 1]
       IN  \E ov \in OracleAnswers(idea, f_verdicts) :
             LET razored == Razor(idea, ov)
                 final_scores == Append(f_final, <<razored.score, idea>>)
             IN  IF razored.error # ""
                 THEN /\ f_pc' = "raised"
                      /\ f_error' = [type |-> razored.error, at |-> "final"]
                      /\ UNCHANGED f_final
                 ELSE /\ f_final' = final_scores
                      /\ f_pc' = IF Len(final_scores) = Len(f_population)
                                 THEN "final" ELSE "rescore"
                      /\ UNCHANGED f_error
    /\ UNCHANGED <<f_input, f_generations, f_population, f_gen, f_razored,
                   f_valid, f_scored, f_survivors, f_new, f_history, f_result>>

\* lines 208-218: the sort, the best idea and the dict returned;
\* final_scores[0] of an empty list raises IndexError
FFinal ==
    /\ FFrame
    /\ f_pc = "final"
    /\ IF Len(f_final) = 0
       THEN /\ f_pc' = "raised"
            /\ f_error' = [type |-> "IndexError", at |-> "final"]
            /\ UNCHANGED f_result
       ELSE LET final_scores == SortDesc(f_final)
            IN  /\ f_result' = [input |-> f_input,
                                output |-> final_scores[1][2],
                                generations |-> f_generations,
                                history |-> f_history,
                                final_score |-> final_scores[1][1]]
                /\ f_pc' = "write"
                /\ UNCHANGED f_error
    /\ UNCHANGED <<f_input, f_generations, f_population, f_gen, f_razored,
                   f_valid, f_scored, f_survivors, f_new, f_history, f_final>>

\* lines 220-227: the line of evolution.jsonl, which is written or not, and
\* the return of the result
FWriteLog ==
    /\ FOthers
    /\ f_pc = "write"
    /\ \E ok \in BOOLEAN :
         LET w == LogWrite(f_log, f_result, ok)
         IN  /\ f_log' = w.log
             /\ IF w.raised
                THEN /\ f_pc' = "raised"
                     /\ f_error' = [type |-> "OSError", at |-> "write"]
                ELSE /\ f_pc' = "done"
                     /\ UNCHANGED f_error
    /\ UNCHANGED <<f_input, f_generations, f_population, f_gen, f_razored,
                   f_valid, f_scored, f_survivors, f_new, f_history, f_final,
                   f_result, f_verdicts, f_cancel>>

FNext ==
    FSeed \/ FRazor \/ FValidate \/ FScore \/ FSelect \/ FOffspring \/ FLog
        \/ FRescore \/ FFinal \/ FWriteLog

SpecF == FInit /\ [][FNext]_vars

\* the answers of o in a run where every call fails
FFailing == {Str(S_timeout), Str(S_boom)}

\* valid seeds of one scalar field: a short string, a long string, a boolean
\* no axiom reads, and a boolean whose inversion violates axiom 1
F16Seeds ==
    { [a |-> Str(S_s)], [b |-> Str(S_eleven)], [a |-> Bool(TRUE)],
      [requires_api |-> Bool(FALSE)] }

F16Init == FStart(F16Seeds \X {1}, FFailing)

SpecF16 == F16Init /\ [][FNext]_vars

\* C6: the population of f holds at least one candidate at the start and at
\* the end of every generation, and so do the lists it is made from: the
\* survivors, and the new population that replaces it.
C6_PopulationNonEmpty ==
    f_pc # "idle" =>
        /\ Len(f_population) >= 1
        /\ f_pc \in {"offspring", "log"} => Len(f_survivors) >= 1
        /\ f_pc = "log" => Len(f_new) >= 1

\* the end of a run whose last generation kept a single, invalid candidate
C6_Witness ==
    /\ f_pc = "done"
    /\ f_gen = MaxGen
    /\ Len(f_valid) = 1
    /\ ~CheckAxioms(f_valid[1]).valid
    /\ Len(f_population) = 2

\* every member of razored_pop fails check_axioms, at a stage of the
\* generation where razored_pop is complete
C7_Exhausted ==
    /\ \/ f_pc \in {"score", "select", "offspring", "log"}
       \/ f_pc = "raised" /\ f_error.at \in {"select", "offspring", "log"}
    /\ \A i \in 1..Len(f_razored) : ~CheckAxioms(f_razored[i]).valid

C7_RaisedInExhausted == f_pc = "raised" /\ C7_Exhausted /\ Len(f_razored) > 1

-----------------------------------------------------------------------------
\* C13: for every seed and every generation budget of 1 or more, f returns a
\* result with an output whatever o answers: no run ends with an exception.
C13_AlwaysReturns == f_generations >= 1 => f_pc # "raised"

\* C14: a call of f with a generation budget of 0 does not return a normal
\* result, with an output and an empty history.
C14_ZeroBudgetRejected ==
    ~(f_pc = "done" /\ f_generations = 0 /\ f_result.history = <<>>)

\* C15: a call of f with a candidate without fields does not return a normal
\* result whose output is the empty candidate with a final score of 0.
C15_EmptySeedRejected ==
    ~(/\ f_pc = "done"
      /\ f_input = EmptyDict
      /\ f_result.output = EmptyDict
      /\ f_result.final_score = 0)

\* the seed of the example: a short string, a long string, two booleans
C16_ExampleSeed ==
    [a |-> Str(<<"s", "h", "o", "r", "t">>),
     b |-> Str(Rep("c", 39)),
     requires_api |-> Bool(FALSE),
     ollama |-> Bool(TRUE)]

\* the answers of an oracle that fails every call made for the idea
C16_FailAll(idea) == [k \in OracleKeys(idea) |-> Str(S_timeout)]

C16_Score(idea) == Razor(idea, C16_FailAll(idea)).score

\* C16: when every call of o returns a failure marker and the seed is a valid
\* candidate of scalar fields, f with generations = 1 returns the seed as its
\* output, with the score of the seed, whatever the mutations draw.  The seed
\* of the example scores 3.5, and none of its mutated variants scores more.
C16_SeedReturned ==
    /\ f_pc = "seed" /\ Len(f_population) = 1 =>
         /\ C16_Score(C16_ExampleSeed) = 3500
         /\ CheckAxioms(C16_ExampleSeed).valid
         /\ \A ch \in Draws(C16_ExampleSeed, SeedRate) :
              C16_Score(Mutate(C16_ExampleSeed, ch).idea) <= 3500
    /\ f_pc # "raised"
    /\ f_pc = "done" =>
         /\ f_result.output = f_input
         /\ f_result.final_score = C16_Score(f_input)

\* a run has ended whose last population holds a candidate that is not the
\* seed and scores as much as the seed
C16_Witness ==
    /\ f_pc = "done"
    /\ f_generations = 1
    /\ f_verdicts = FFailing
    /\ \E i \in 1..Len(f_final) :
         f_final[i][2] # f_input /\ f_final[i][1] = f_result.final_score

-----------------------------------------------------------------------------
\* C24: a call f(seed, G) that returns has made the cycle razor, validate,
\* select, mutate exactly G times, and its history has exactly G entries, one
\* per generation in order (gen = 0 .. G-1); the entry of a generation
\* records the size of the population after the mutation and the score and
\* the hypothesis count of a razor of the first member of that population
\* (compared where the entry has just been written, at the head of the loop).
C24_OneEntryPerGeneration ==
    f_pc # "idle" =>
        /\ Len(f_history) = f_gen
        /\ f_gen <= f_generations
        /\ \A i \in 1..Len(f_history) : f_history[i].gen = i - 1
        /\ f_pc \in {"write", "done"} =>
               /\ f_gen = f_generations
               /\ f_result.history = f_history
               /\ Len(f_result.history) = f_result.generations
        /\ (f_history # <<>> /\ ~(f_pc = "raised" /\ f_error.at = "log")) =>
               f_history[Len(f_history)].pop_size = Len(f_population)
        /\ (f_history # <<>> /\ f_pc \in {"razor", "rescore"}) =>
               LET last == f_history[Len(f_history)]
               IN  /\ f_population = f_new
                   /\ \E ov \in OracleAnswers(f_population[1], f_verdicts) :
                          LET best == Razor(f_population[1], ov)
                          IN  /\ best.error = ""
                              /\ last.best_score = best.score
                              /\ last.best_hypotheses = best.hypotheses_total

\* the return of a run of two generations or more whose populations differ
\* in size from one generation to the next
C24_Witness ==
    /\ f_pc = "done"
    /\ f_generations >= 2
    /\ Len(f_result.history) = f_generations
    /\ f_result.history[1].pop_size # f_result.history[2].pop_size

-----------------------------------------------------------------------------
\* C25: the output f returns is a member of the final population whose score,
\* computed by a fresh razor of each member after the last generation, is
\* maximal over that population, the earliest such member when several score
\* as much; final_score is the score of that member.
C25_OutputIsBest ==
    f_pc \in {"write", "done"} =>
        /\ Len(f_final) = Len(f_population)
        /\ \A i \in 1..Len(f_population) :
               /\ f_final[i][2] = f_population[i]
               /\ \E ov \in OracleAnswers(f_population[i], f_verdicts) :
                      f_final[i][1] = Razor(f_population[i], ov).score
        /\ \E i \in 1..Len(f_population) :
               /\ f_result.output = f_population[i]
               /\ f_result.final_score = f_final[i][1]
               /\ \A j \in 1..Len(f_population) : f_final[j][1] <= f_final[i][1]
               /\ \A j \in 1..(i - 1) : f_final[j][1] < f_final[i][1]

\* a return where the first member of the final population is not the best,
\* a later member scores the maximum and a member after it scores as much
C25_Witness ==
    /\ f_pc = "done"
    /\ f_final[1][1] < f_result.final_score
    /\ \E i, j \in 1..Len(f_final) :
           /\ i < j
           /\ f_final[i][1] = f_result.final_score
           /\ f_final[j][1] = f_result.final_score
           /\ f_result.output = f_final[i][2]

-----------------------------------------------------------------------------
\* C27: across the generations of a run of f the population does not grow:
\* its size at the end of every generation is at most its size at the end of
\* the generation before, and at most the initial size 6 plus 2.
C27_PopulationDoesNotGrow ==
    \A i \in 1..Len(f_history) :
        /\ f_history[i].pop_size <= 1 + SeedVariants + 2
        /\ i > 1 => f_history[i].pop_size <= f_history[i - 1].pop_size

-----------------------------------------------------------------------------
(* the two writers of a log: a call of f, or a call of o *)

LGInit == FInit \/ OCInit

LGNext == FNext \/ OCNext

SpecLogs == LGInit /\ [][LGNext]_vars

\* C17: a write of the log that fails raises nothing and changes nothing of
\* what is returned: occam goes on to return its analysis, and f its result,
\* as after a write that succeeds.
C17_LogNeverMatters ==
    [][/\ oc_pc = "log" => (oc_pc' = "return" /\ oc_analysis' = oc_analysis)
       /\ f_pc = "write" =>
              (f_pc' = "done" /\ f_result' = f_result /\ f_error' = NoError)]_vars

\* f has returned a result of one generation or more, and its line is not in
\* the log: the write failed
C17_Witness ==
    /\ f_pc = "done"
    /\ f_log = <<>>
    /\ f_generations >= 1
    /\ f_result.history # <<>>

-----------------------------------------------------------------------------
(* f.py: a run of one generation on a valid seed of two fields, as an     *)
(* earlier run returns it (loop_forever feeds the output of f back to f): *)
(* a pair and a boolean that axiom 1 reads                                *)

F28Seed ==
    [a |-> Tuple(<<Str(S_s), Alt(Str(S_s))>>), requires_api |-> Bool(FALSE)]

\* f after four of the five variants of the seed have been made (lines
\* 160-162), each by a mutation that inverted requires_api and left the
\* pair alone
F28Init ==
    /\ RAIdle /\ RZIdle /\ MUIdle /\ SEIdle /\ OCIdle /\ APIdle /\ DMIdle
    /\ EWIdle /\ MRIdle
    /\ AXIdle /\ HPIdle
    /\ f_input = F28Seed
    /\ f_generations = 1
    /\ f_verdicts = FVerdicts
    /\ f_cancel = FALSE
    /\ f_log = <<>>
    /\ \E ch \in Draws(f_input, SeedRate) :
         /\ ~ch["a"].coin
         /\ ch["requires_api"].coin /\ ch["requires_api"].type = "invert"
         /\ f_population =
                <<f_input>> \o [i \in 1..(SeedVariants - 1) |-> Mutate(f_input, ch).idea]
    /\ f_gen = 0
    /\ f_razored = <<>>
    /\ f_valid = <<>>
    /\ f_scored = <<>>
    /\ f_survivors = <<>>
    /\ f_new = <<>>
    /\ f_history = <<>>
    /\ f_final = <<>>
    /\ f_pc = "seed"
    /\ f_result = <<>>
    /\ f_error = NoError

SpecF28 == F28Init /\ [][FNext]_vars

\* C28: when the seed passes check_axioms and the fallback of the validation
\* does not fire in the run (every candidate handed to select passes
\* check_axioms), the output f returns passes check_axioms.
C28_OutputPassesAxioms ==
    (/\ f_pc = "done"
     /\ f_generations = 1
     /\ CheckAxioms(f_input).valid
     /\ \A i \in 1..Len(f_valid) : CheckAxioms(f_valid[i]).valid) =>
        CheckAxioms(f_result.output).valid

-----------------------------------------------------------------------------
(* f.py: the candidates as objects.  A dict is an object with an identity, *)
(* its place in hp_heap; a list of candidates holds identities, and two   *)
(* names may stand for one object.  A write d[key] = value changes the    *)
(* object d stands for, for every holder of d.  The values of the fields  *)
(* (str, bool, tuple) cannot be changed in place.                          *)

\* a name for the same object instead of a copy
DictCopy_alias(heap, r) == [heap |-> heap, ref |-> r]

\* line 71, mutated = dict(idea): a new object with the items of idea
DictCopy(heap, r) == [heap |-> Append(heap, heap[r]), ref |-> Len(heap) + 1]

\* lines 71-97: mutate(idea, rate) for what random draws; the writes of the
\* loop (lines 85, 90, 94) go to the object mutated stands for, and the
\* dict returned holds that object as "idea"
HeapMutate(heap, r, ch) ==
    LET c == DictCopy(heap, r)
        m == Mutate(c.heap[c.ref], ch)
    IN  [error |-> m.error, heap |-> [c.heap EXCEPT ![c.ref] = m.idea], ref |-> c.ref]

\* lines 34-63: razor(idea) for the answers of o; kept = {} (line 35) is a new
\* object, the writes of the loop (lines 44, 47, 51) go to it, and the dict
\* returned holds it as "kept"
HeapRazor(heap, r, ov) ==
    LET razored == Razor(heap[r], ov)
    IN  [error |-> razored.error, heap |-> Append(heap, razored.kept),
         ref |-> Len(heap) + 1, score |-> razored.score]

\* the dicts the identities stand for
Values(heap, refs) == [i \in 1..Len(refs) |-> heap[refs[i]]]

\* lines 168-171: razored_pop, from member i on
RECURSIVE HeapRazorAll(_, _, _, _)
HeapRazorAll(refs, ovs, i, acc) ==
    IF i > Len(refs) \/ acc.error # "" THEN acc
    ELSE LET r == HeapRazor(acc.heap, refs[i], ovs[i])
         IN  HeapRazorAll(refs, ovs, i + 1,
                 IF r.error # "" THEN [acc EXCEPT !.error = r.error]
                 ELSE [error |-> "", heap |-> r.heap, refs |-> Append(acc.refs, r.ref)])

\* lines 174-182: valid_pop
HeapValid(heap, refs) ==
    LET valid_pop == SelectSeq(refs, LAMBDA r : CheckAxioms(heap[r]).valid)
    IN  IF Len(valid_pop) = 0
        THEN SubSeq(refs, 1, IF Len(refs) < 1 THEN Len(refs) ELSE 1)
        ELSE valid_pop

\* lines 106-112 (and 207-208): the members paired with the score of a razor
\* of each, sorted; the kept dicts of these razors are dropped
HeapScored(heap, refs, ovs) ==
    LET razors == Razors(Values(heap, refs), ovs)
    IN  [error |-> FirstError(razors),
         scored |-> SortDesc([i \in 1..Len(refs) |-> <<razors[i].score, refs[i]>>])]

\* the seeds of the runs on objects: a boolean an axiom reads and a string,
\* which a superposition turns into a pair and a simplification back
HPSeeds ==
    { [force_choice |-> Bool(TRUE)],
      [a |-> Str(S_s)] }

\* the caller holds the seed as object 1 and calls f(seed, generations);
\* line 157: population = [input_data] holds the caller's object itself
HPInit ==
    /\ RAIdle /\ RZIdle /\ MUIdle /\ SEIdle /\ FIdle /\ OCIdle /\ APIdle
    /\ EWIdle /\ MRIdle
    /\ DMIdle /\ AXIdle
    /\ hp_given \in HPSeeds
    /\ hp_heap = <<hp_given>>
    /\ hp_generations \in 0..(MaxGen - 1)
    /\ hp_gen = 0
    /\ hp_population = <<1>>
    /\ hp_survivors = <<>>
    /\ hp_new = <<>>
    /\ hp_output = 0
    /\ hp_pc = "seed"

\* for gen in range(generations), on objects
HPLoopHead(gen, generations) == IF gen < generations THEN "select" ELSE "final"

\* lines 160-162: mutate(input_data, rate=0.3) is called on the caller's
\* object, and the "idea" it returns joins the population
HFSeed ==
    /\ HPFrame
    /\ hp_pc = "seed"
    /\ \E ch \in Draws(hp_heap[1], SeedRate) :
         LET mutated == HeapMutate(hp_heap, 1, ch)
             population == Append(hp_population, mutated.ref)
         IN  /\ hp_heap' = mutated.heap
             /\ IF mutated.error # ""
                THEN hp_pc' = "raised" /\ UNCHANGED hp_population
                ELSE /\ hp_population' = population
                     /\ hp_pc' = IF Len(population) = 1 + SeedVariants
                                 THEN HPLoopHead(hp_gen, hp_generations)
                                 ELSE "seed"
    /\ UNCHANGED <<hp_given, hp_generations, hp_gen, hp_survivors, hp_new,
                   hp_output>>

\* lines 168-185: the razor of every member, the validation of the kept
\* dicts and the selection among them
HFSelect ==
    /\ HPFrame
    /\ hp_pc = "select"
    /\ \E ovs \in OracleAnswersAll(Values(hp_heap, hp_population), FVerdicts) :
         LET razored == HeapRazorAll(hp_population, ovs, 1,
                            [error |-> "", heap |-> hp_heap, refs |-> <<>>])
             valid_pop == HeapValid(razored.heap, razored.refs)
         IN  IF razored.error # ""
             THEN hp_pc' = "raised" /\ UNCHANGED <<hp_heap, hp_survivors>>
             ELSE \E again \in OracleAnswersAll(Values(razored.heap, valid_pop), FVerdicts) :
                    LET sel == HeapScored(razored.heap, valid_pop, again)
                        top == TopHalf(sel.scored)
                    IN  IF sel.error # ""
                        THEN hp_pc' = "raised" /\ UNCHANGED <<hp_heap, hp_survivors>>
                        ELSE /\ hp_heap' = razored.heap
                             /\ hp_survivors' = [i \in 1..Len(top) |-> top[i][2]]
                             /\ hp_pc' = "offspring"
    /\ hp_new' = <<>>
    /\ UNCHANGED <<hp_given, hp_generations, hp_gen, hp_population, hp_output>>

\* lines 189-198: the next survivor joins the new population, itself and the
\* "idea" of its mutation; after the last one the new population replaces
\* the population and its first member is razored for the history
HFOffspring ==
    /\ HPFrame
    /\ hp_pc = "offspring"
    /\ LET survivor == hp_survivors[Len(hp_new) \div 2 + 1]
       IN  \E ch \in Draws(hp_heap[survivor], OffspringRate) :
             LET mutated == HeapMutate(hp_heap, survivor, ch)
                 new_population == hp_new \o <<survivor, mutated.ref>>
             IN  /\ hp_heap' = mutated.heap
                 /\ IF mutated.error # ""
                    THEN /\ hp_pc' = "raised"
                         /\ UNCHANGED <<hp_new, hp_population, hp_gen>>
                    ELSE IF Len(new_population) < 2 * Len(hp_survivors)
                    THEN /\ hp_new' = new_population
                         /\ UNCHANGED <<hp_pc, hp_population, hp_gen>>
                    ELSE /\ hp_new' = new_population
                         /\ hp_population' = new_population
                         /\ \E ov \in OracleAnswers(mutated.heap[new_population[1]], FVerdicts) :
                              IF Razor(mutated.heap[new_population[1]], ov).error # ""
                              THEN hp_pc' = "raised" /\ UNCHANGED hp_gen
                              ELSE /\ hp_gen' = hp_gen + 1
                                   /\ hp_pc' = HPLoopHead(hp_gen + 1, hp_generations)
    /\ UNCHANGED <<hp_given, hp_generations, hp_survivors, hp_output>>

\* lines 207-218: the members scored and sorted; result["output"] is the
\* object of the first pair, and result["input"] the caller's object
HFFinal ==
    /\ HPFrame
    /\ hp_pc = "final"
    /\ \E ovs \in OracleAnswersAll(Values(hp_heap, hp_population), FVerdicts) :
         LET final == HeapScored(hp_heap, hp_population, ovs)
         IN  IF final.error # ""
             THEN hp_pc' = "raised" /\ UNCHANGED hp_output
             ELSE hp_output' = final.scored[1][2] /\ hp_pc' = "done"
    /\ UNCHANGED <<hp_heap, hp_given, hp_generations, hp_gen, hp_population,
                   hp_survivors, hp_new>>

HPNext == HFSeed \/ HFSelect \/ HFOffspring \/ HFFinal

SpecObjects == HPInit /\ [][HPNext]_vars

\* C29: no step of f, and no call of mutate, razor or select in it, changes
\* a dict that exists: the objects only become more.  The dict mutate
\* returns as "idea" is a new object, not the one it was given.  So the
\* caller's seed has the same fields and values when f returns as before.
C29_CandidatesNotModified ==
    [][/\ Len(hp_heap') >= Len(hp_heap)
       /\ \A r \in 1..Len(hp_heap) : hp_heap'[r] = hp_heap[r]
       /\ (hp_pc = "seed" /\ hp_population' # hp_population) =>
              hp_population'[Len(hp_population')] \notin 1..Len(hp_heap)
       /\ (hp_pc = "offspring" /\ hp_new' # hp_new) =>
              hp_new'[Len(hp_new')] \notin 1..Len(hp_heap)
       /\ hp_pc' = "done" => hp_heap'[1] = hp_given]_vars

\* f has returned after a generation; a variant of the seed in the first
\* population was mutated, the output is another object than the seed with
\* other values, and the caller's seed is as it was
C29_Witness ==
    /\ hp_pc = "done"
    /\ hp_gen >= 1
    /\ hp_heap[1] = hp_given
    /\ \E r \in 2..(1 + SeedVariants) : hp_heap[r] # hp_given
    /\ hp_output # 1
    /\ hp_heap[hp_output] # hp_given

-----------------------------------------------------------------------------
(* f.py: a run of f over a log that may hold the record of an earlier run *)

\* the record f({}, 0) has left in the log
FOldRecord ==
    [input |-> EmptyDict, output |-> EmptyDict, generations |-> 0,
     history |-> <<>>, final_score |-> 0]

FLInit == FEnter(FCheapSeeds \X (0..MaxGen), FVerdicts, {<<>>, <<FOldRecord>>})

SpecFLog == FLInit /\ [][FNext]_vars

C26_NoRecord ==
    /\ f_pc = "done"
    /\ f_generations >= 1
    /\ f_log = <<FOldRecord>>

-----------------------------------------------------------------------------
(* f.py: a run of f whose host asks for it to be aborted *)

\* the host asks for the run to be aborted; nothing in f reads the request
FCancel ==
    /\ FOthers
    /\ f_pc \notin {"idle", "done", "raised"}
    /\ ~f_cancel
    /\ f_cancel' = TRUE
    /\ UNCHANGED <<fVars, f_verdicts, f_log>>

FCInit == FStart(FCheapSeeds \X (0..MaxGen), FVerdicts)

FCNext == FNext \/ FCancel

SpecFCancel == FCInit /\ [][FCNext]_vars

\* C19: once the abort of the run has been asked for, f starts no further
\* generation: from the top of the loop over the generations (reached after
\* the seeding and after each generation) it does not enter the razor of a
\* next generation.
C19_NoGenerationAfterCancel ==
    [][(f_cancel /\ f_pc \in {"seed", "log"}) => f_pc' # "razor"]_vars

-----------------------------------------------------------------------------
(* o.py lines 81-85 and f.py lines 221-225: writers that append to one    *)
(* log at the same time.  Each opens the file in append mode and writes   *)
(* its line when the file is closed; the system appends what one write    *)
(* call hands over at the end of the file, all of it or a first part.     *)

\* json.dumps of a value: a string without escapes, a number, a boolean, None
JsonDumpsValue(v) ==
    CASE v.k = "str"  -> <<"\"">> \o v.s \o <<"\"">>
      [] v.k = "int"  -> v.s
      [] v.k = "bool" -> IF v.b THEN <<"t", "r", "u", "e">> ELSE <<"f", "a", "l", "s", "e">>
      [] OTHER        -> <<"n", "u", "l", "l">>

\* json.dumps(d) of a dict
JsonDumps(d) ==
    LET Item(i) == <<"\"">> \o d[i].key \o <<"\"">> \o <<":", " ">>
                       \o JsonDumpsValue(d[i].value)
        F[i \in 0..Len(d)] ==
            IF i = 0 THEN <<>>
            ELSE IF i = 1 THEN Item(1)
            ELSE F[i - 1] \o <<",", " ">> \o Item(i)
    IN  <<"{">> \o F[Len(d)] \o <<"}">>

MaxShort == 1      \* most write calls of one line that append a part only

\* what the writers log, each cut to one member: an entry of occam and a
\* result of f
APEvents ==
    \* {"claim": "x"} and {"generations": 1}
    << <<[key |-> <<"c", "l", "a", "i", "m">>, value |-> Str(S_x)]>>,
       <<[key |-> <<"g", "e", "n", "e", "r", "a", "t", "i", "o", "n", "s">>,
          value |-> Num(<<"1">>)]>> >>

APWriters == 1..Len(APEvents)

\* json.dumps(entry, ensure_ascii=False) + "\n"
Line(event) == JsonDumps(event) \o <<"\n">>

APInit ==
    /\ RAIdle /\ RZIdle /\ MUIdle /\ SEIdle /\ FIdle /\ OCIdle /\ DMIdle
    /\ EWIdle /\ MRIdle
    /\ AXIdle /\ HPIdle
    /\ ap_file = <<>>
    /\ ap_pc = [w \in APWriters |-> "open"]
    /\ ap_left = [w \in APWriters |-> Line(APEvents[w])]
    /\ ap_shorts = [w \in APWriters |-> 0]

\* open(LOG, "a"): the file is opened, or the error is passed over
APOpen(w) ==
    /\ APFrame
    /\ ap_pc[w] = "open"
    /\ \E ok \in BOOLEAN :
         ap_pc' = [ap_pc EXCEPT ![w] = IF ok THEN "write" ELSE "closed"]
    /\ UNCHANGED <<ap_file, ap_left, ap_shorts>>

\* the line leaves the buffer when the with block closes the file: one write
\* call appends the first n characters still to write at the end of the file,
\* and the file object calls again for the rest
APWrite(w) ==
    /\ APFrame
    /\ ap_pc[w] = "write"
    /\ \E n \in 1..Len(ap_left[w]) :
         /\ n = Len(ap_left[w]) \/ ap_shorts[w] < MaxShort
         /\ ap_file' = ap_file \o SubSeq(ap_left[w], 1, n)
         /\ ap_left' = [ap_left EXCEPT ![w] = SubSeq(ap_left[w], n + 1, Len(ap_left[w]))]
         /\ ap_shorts' = [ap_shorts EXCEPT ![w] = IF n = Len(ap_left[w]) THEN @ ELSE @ + 1]
         /\ ap_pc' = [ap_pc EXCEPT ![w] = IF n = Len(ap_left[w]) THEN "closed" ELSE "write"]

\* a write call raises OSError (no space left, an I/O error): except: pass
APFail(w) ==
    /\ APFrame
    /\ ap_pc[w] = "write"
    /\ ap_pc' = [ap_pc EXCEPT ![w] = "closed"]
    /\ UNCHANGED <<ap_file, ap_left, ap_shorts>>

APNext == \E w \in APWriters : APOpen(w) \/ APWrite(w) \/ APFail(w)

SpecAppend == APInit /\ [][APNext]_vars

\* the lines of the file that "\n" ends, and what follows the last "\n"
C18_Ends == {i \in 1..Len(ap_file) : ap_file[i] = "\n"}
C18_Before(i) ==
    LET prev == {j \in C18_Ends : j < i}
    IN  IF prev = {} THEN 0 ELSE CHOOSE j \in prev : \A h \in prev : h <= j
C18_Lines == {SubSeq(ap_file, C18_Before(i) + 1, i - 1) : i \in C18_Ends}
C18_Tail == SubSeq(ap_file, C18_Before(Len(ap_file) + 1) + 1, Len(ap_file))

\* the line is the JSON record of one of the events
C18_IsRecord(line) ==
    /\ Len(line) > 0
    /\ line[1] = "{"
    /\ JsonLoads(line).ok
    /\ \E w \in APWriters : JsonLoads(line).value = APEvents[w]

\* C18: when several writers append to the log at the same time, every line
\* of the log is the complete JSON record of one event, and when all writers
\* are done nothing is left after the last line: no record is written in
\* part or mixed with the record of another writer.
C18_LinesComplete ==
    /\ \A line \in C18_Lines : C18_IsRecord(line)
    /\ (\A w \in APWriters : ap_pc[w] = "closed") => C18_Tail = <<>>

-----------------------------------------------------------------------------
(* entity_daemon.py: daemon_loop *)

\* ENTITIES, in the order of the dict, and the API of each
Entities == <<"nyx", "cipher", "flow">>
ApiOf(name) == IF name = "flow" THEN "gemini" ELSE "claude"

ReactionPeriod == 10   \* daemon_loop: the iterations between two reaction checks

\* what the daemon finds when it starts: whether each package can be
\* imported, whether each key is in the environment, the dirs that exist
DMEnvs ==
    [anthropic : BOOLEAN, genai : BOOLEAN, claude_key : BOOLEAN,
     gemini_key : BOOLEAN, dirs : SUBSET {"nyx", "cipher", "flow"}]

DMInit ==
    /\ RAIdle /\ RZIdle /\ MUIdle /\ SEIdle /\ FIdle /\ OCIdle /\ APIdle
    /\ EWIdle /\ MRIdle
    /\ AXIdle /\ HPIdle
    /\ dm_env \in DMEnvs
    /\ dm_anthropic = FALSE
    /\ dm_genai = FALSE
    /\ dm_claude_client = FALSE
    /\ dm_gemini_configured = FALSE
    /\ dm_watchers = <<>>
    /\ dm_reaction_check = 0
    /\ dm_last_reaction = {}
    /\ dm_pc = "load"
    /\ dm_error = ""

\* lines 19-30: each import succeeds or is passed over
DLoadApis ==
    /\ DMFrame
    /\ dm_pc = "load"
    /\ dm_anthropic' = dm_env.anthropic
    /\ dm_genai' = dm_env.genai
    /\ dm_pc' = "init"
    /\ UNCHANGED <<dm_env, dm_claude_client, dm_gemini_configured, dm_watchers,
                   dm_reaction_check, dm_last_reaction, dm_error>>

\* lines 60-72, called at line 316 outside any try: with a key set and the
\* package missing, anthropic.Anthropic or genai.configure is an attribute
\* of None
DInitApis ==
    /\ DMFrame
    /\ dm_pc = "init"
    /\ IF dm_env.claude_key /\ ~dm_anthropic
       THEN /\ dm_pc' = "dead"
            /\ dm_error' = "AttributeError"
            /\ UNCHANGED <<dm_claude_client, dm_gemini_configured>>
       ELSE /\ dm_claude_client' = dm_env.claude_key
            /\ IF dm_env.gemini_key /\ ~dm_genai
               THEN /\ dm_pc' = "dead"
                    /\ dm_error' = "AttributeError"
                    /\ UNCHANGED dm_gemini_configured
               ELSE /\ dm_gemini_configured' = dm_env.gemini_key
                    /\ dm_pc' = "watchers"
                    /\ UNCHANGED dm_error
    /\ UNCHANGED <<dm_env, dm_anthropic, dm_genai, dm_watchers,
                   dm_reaction_check, dm_last_reaction>>

\* lines 318-329: a watcher for each entity whose dir exists
DWatchers ==
    /\ DMFrame
    /\ dm_pc = "watchers"
    /\ dm_watchers' = SelectSeq(Entities, LAMBDA name : name \in dm_env.dirs)
    /\ dm_reaction_check' = 0
    /\ dm_last_reaction' = {}
    /\ dm_pc' = "loop"
    /\ UNCHANGED <<dm_env, dm_anthropic, dm_genai, dm_claude_client,
                   dm_gemini_configured, dm_error>>

\* lines 290-295: the entity's API is configured
ApiReady(name) ==
    IF ApiOf(name) = "claude" THEN dm_claude_client ELSE dm_gemini_configured

\* lines 332-347: an iteration in which nothing raises; every tenth one
\* checks the stimuli, and the entities that react are recorded
DIterate ==
    /\ DMFrame
    /\ dm_pc = "loop"
    /\ IF dm_reaction_check + 1 >= ReactionPeriod
       THEN /\ dm_reaction_check' = 0
            /\ \E reacted \in SUBSET {n \in {"nyx", "cipher", "flow"} : ApiReady(n)} :
                 dm_last_reaction' = dm_last_reaction \cup reacted
       ELSE /\ dm_reaction_check' = dm_reaction_check + 1
            /\ UNCHANGED dm_last_reaction
    /\ UNCHANGED <<dm_env, dm_anthropic, dm_genai, dm_claude_client,
                   dm_gemini_configured, dm_watchers, dm_pc, dm_error>>

\* lines 334-335 and 350-352: the check of a watcher raises (the task cannot
\* be processed, output.json cannot be written); the loop catches it
DTaskFault ==
    /\ DMFrame
    /\ dm_pc = "loop"
    /\ dm_watchers # <<>>
    /\ dm_error' = "Exception in check"
    /\ UNCHANGED <<dm_env, dm_anthropic, dm_genai, dm_claude_client,
                   dm_gemini_configured, dm_watchers, dm_reaction_check,
                   dm_last_reaction, dm_pc>>

\* lines 338-345 and 350-352: check_stimuli or maybe_react raises in an
\* iteration that checks the stimuli; the loop catches it
DReactFault ==
    /\ DMFrame
    /\ dm_pc = "loop"
    /\ dm_reaction_check + 1 >= ReactionPeriod
    /\ dm_reaction_check' = 0
    /\ dm_error' = "Exception in reaction"
    /\ UNCHANGED <<dm_env, dm_anthropic, dm_genai, dm_claude_client,
                   dm_gemini_configured, dm_watchers, dm_last_reaction, dm_pc>>

\* lines 348-349: KeyboardInterrupt ends the loop (and, before the loop, the
\* daemon)
DInterrupt ==
    /\ DMFrame
    /\ dm_pc \in {"load", "init", "watchers", "loop"}
    /\ dm_pc' = "stopped"
    /\ dm_error' = "KeyboardInterrupt"
    /\ UNCHANGED <<dm_env, dm_anthropic, dm_genai, dm_claude_client,
                   dm_gemini_configured, dm_watchers, dm_reaction_check,
                   dm_last_reaction>>

DMNext ==
    DLoadApis \/ DInitApis \/ DWatchers \/ DIterate \/ DTaskFault
        \/ DReactFault \/ DInterrupt

SpecDaemon == DMInit /\ [][DMNext]_vars

\* C20: once daemon_loop is called, no exception other than
\* KeyboardInterrupt ends it: not a failure of load_apis or init_apis, of
\* the creation of the watchers, of a task, of the writing of an output or
\* of a reaction.
C20_NeverDies == dm_pc # "dead"

-----------------------------------------------------------------------------
(* entity_daemon.py: EntityWatcher, and talk.py: route_message.  The file  *)
(* input.json is a text and the time of its last modification.  The file   *)
(* system stamps a modification with its clock, and the clock need not     *)
(* have moved between two modifications (the stamps of ext4 before Linux   *)
(* 6.13 move once in a timer tick, those of FAT once in two seconds).      *)
(* The watcher and route_message run in two processes; their steps are     *)
(* the system calls, in any order.                                         *)

MaxClock    == 4   \* the last tick of the file system clock
MaxMessages == 2   \* most calls of route_message

\* ENTITIES[name]["dir"], under HOME
DirOf(name) ==
    CASE name = "nyx"  -> "nyx-v2"
      [] name = "flow" -> "flow-phoenix"
      [] OTHER         -> name

\* talk.py lines 83-85: the dir route_message writes into, under HOME, given
\* the dirs that exist
TalkPath(entity, dirs) ==
    LET path == IF entity = "nyx" THEN "nyx-v2" ELSE entity
    IN  IF path \in dirs THEN path ELSE entity

\* talk.py lines 91-95: the dict of call n at time now; a time is written
\* with one digit
TalkMessage(n, now) ==
    LET digit(d) == <<"0", "1", "2", "3", "4", "5", "6", "7", "8", "9">>[d + 1]
    IN  << [key |-> <<"t", "i", "m", "e", "s", "t", "a", "m", "p">>,
            value |-> Str(<<digit(now)>>)],
           [key |-> <<"m", "e", "s", "s", "a", "g", "e">>,
            value |-> Str(<<"m", digit(n)>>)],
           [key |-> <<"s", "o", "u", "r", "c", "e">>,
            value |-> Str(<<"t", "a", "l", "k">>)] >>

\* line 183, json.loads of the text of a file: a text that does not open
\* with { is no object
Loads(text) ==
    IF Len(text) = 0 \/ text[1] # "{" THEN JsonFail ELSE JsonLoads(text)

\* a test that lets the same mtime through again
Changed_again(mtime, last_mtime) == mtime >= last_mtime

\* line 174, negated: the file was modified since last_mtime
Changed(mtime, last_mtime) == ~(mtime <= last_mtime)

\* the lengths a write call may append of what it is given: all of it, or a
\* first character, a first half, all but the last character
TWCuts(left) ==
    {n \in {1, Len(left) \div 2, Len(left) - 1, Len(left)} : n >= 1}

\* the dirs under HOME that matter to the watcher of an entity: its own
\* (line 320), and for flow the dir talk.py writes into, which may exist
EWDirs(name) ==
    {{DirOf(name)}} \cup
        (IF TalkPath(name, {DirOf(name)}) = DirOf(name) THEN {}
         ELSE {{DirOf(name), TalkPath(name, {DirOf(name)})}})

\* lines 161-166: a watcher is created for an entity whose dir exists;
\* input.json is not there yet, or holds an older message
EWInit ==
    /\ RAIdle /\ RZIdle /\ MUIdle /\ SEIdle /\ FIdle /\ OCIdle /\ APIdle
    /\ DMIdle /\ AXIdle /\ HPIdle /\ MRIdle
    /\ ew_name \in {"nyx", "flow"}    \* cipher is watched as nyx is
    /\ \E dirs \in EWDirs(ew_name), old \in BOOLEAN :
         ew_fs = [d \in dirs |->
                    IF old /\ d = DirOf(ew_name)
                    THEN [exists |-> TRUE, mtime |-> 1,
                          text |-> JsonDumps(TalkMessage(0, 1))]
                    ELSE [exists |-> FALSE, mtime |-> 0, text |-> <<>>]]
    /\ ew_clock = 2
    /\ ew_last_mtime = 0
    /\ ew_pc = "idle"
    /\ ew_task = <<>>
    /\ ew_processed = <<>>
    /\ ew_outputs = <<>>
    /\ tw_pc = "idle"
    /\ tw_n = 0
    /\ tw_message = <<>>
    /\ tw_left = <<>>
    /\ tw_shorts = 0
    /\ tw_sent = <<>>

\* the clock of the file system moves on
EWTick ==
    /\ EWFrame
    /\ ew_clock < MaxClock
    /\ ew_clock' = ew_clock + 1
    /\ UNCHANGED <<ew_name, ew_fs, ew_last_mtime, ew_pc, ew_task, ew_processed,
                   ew_outputs, tw_pc, tw_n, tw_message, tw_left, tw_shorts,
                   tw_sent>>

\* talk.py lines 83-95: route_message(entity, message) up to the end of
\* json.dump.  Without the dir, or when open raises, it returns False;
\* open(input_file, 'w') makes the file or cuts it to nothing, which is a
\* modification, and json.dump leaves the text in the buffer of the file
TWOpen ==
    /\ EWFrame
    /\ tw_pc = "idle"
    /\ tw_n < MaxMessages
    /\ tw_n' = tw_n + 1
    /\ LET path == TalkPath(ew_name, DOMAIN ew_fs)
       IN  \E ok \in BOOLEAN :
             IF path \in DOMAIN ew_fs /\ ok
             THEN /\ ew_fs' = [ew_fs EXCEPT ![path] =
                                  [exists |-> TRUE, mtime |-> ew_clock, text |-> <<>>]]
                  /\ tw_message' = TalkMessage(tw_n + 1, ew_clock)
                  /\ tw_left' = JsonDumps(TalkMessage(tw_n + 1, ew_clock))
                  /\ tw_shorts' = 0
                  /\ tw_pc' = "write"
             ELSE UNCHANGED <<ew_fs, tw_message, tw_left, tw_shorts, tw_pc>>
    /\ UNCHANGED <<ew_name, ew_clock, ew_last_mtime, ew_pc, ew_task,
                   ew_processed, ew_outputs, tw_sent>>

\* talk.py lines 90 and 96: the with block closes the file, and the buffer
\* is written: a write call appends the first n characters still to write,
\* which is a modification; after the last one route_message returns True
TWWrite ==
    /\ EWFrame
    /\ tw_pc = "write"
    /\ LET path == TalkPath(ew_name, DOMAIN ew_fs)
       IN  \E n \in TWCuts(tw_left) :
             /\ n = Len(tw_left) \/ tw_shorts < MaxShort
             /\ ew_fs' = [ew_fs EXCEPT ![path] =
                             [exists |-> TRUE, mtime |-> ew_clock,
                              text |-> @.text \o SubSeq(tw_left, 1, n)]]
             /\ tw_left' = SubSeq(tw_left, n + 1, Len(tw_left))
             /\ IF n = Len(tw_left)
                THEN /\ tw_pc' = "idle"
                     /\ tw_sent' = Append(tw_sent, tw_message)
                     /\ UNCHANGED tw_shorts
                ELSE /\ tw_shorts' = tw_shorts + 1
                     /\ UNCHANGED <<tw_pc, tw_sent>>
    /\ UNCHANGED <<ew_name, ew_clock, ew_last_mtime, ew_pc, ew_task,
                   ew_processed, ew_outputs, tw_n, tw_message>>

\* talk.py lines 97-98: a write call raises; route_message returns False and
\* the file stays as it is
TWFail ==
    /\ EWFrame
    /\ tw_pc = "write"
    /\ tw_pc' = "idle"
    /\ UNCHANGED <<ew_name, ew_fs, ew_clock, ew_last_mtime, ew_pc, ew_task,
                   ew_processed, ew_outputs, tw_n, tw_message, tw_left,
                   tw_shorts, tw_sent>>

\* lines 168-178: check(), up to the call of process()
EWCheck ==
    /\ EWFrame
    /\ ew_pc = "idle"
    /\ LET file == ew_fs[DirOf(ew_name)]
       IN  IF file.exists /\ Changed(file.mtime, ew_last_mtime)
           THEN /\ ew_last_mtime' = file.mtime
                /\ ew_processed' = Append(ew_processed, file.mtime)
                /\ ew_pc' = "process"
           ELSE UNCHANGED <<ew_last_mtime, ew_processed, ew_pc>>
    /\ UNCHANGED <<ew_name, ew_fs, ew_clock, ew_task, ew_outputs, tw_pc, tw_n,
                   tw_message, tw_left, tw_shorts, tw_sent>>

\* lines 182-187: process() reads the file as it is now and parses it; a
\* text that is no JSON, and an empty task, end it
EWProcess ==
    /\ EWFrame
    /\ ew_pc = "process"
    /\ LET loaded == Loads(ew_fs[DirOf(ew_name)].text)
       IN  IF loaded.ok /\ Len(loaded.value) > 0
           THEN ew_task' = loaded.value /\ ew_pc' = "respond"
           ELSE ew_pc' = "idle" /\ UNCHANGED ew_task
    /\ UNCHANGED <<ew_name, ew_fs, ew_clock, ew_last_mtime, ew_processed,
                   ew_outputs, tw_pc, tw_n, tw_message, tw_left, tw_shorts,
                   tw_sent>>

\* lines 192-204: a message holds no command, so process_task answers it
\* (an error of the API becomes the response, lines 127-128) and the result,
\* which holds the task, is written to output.json
EWRespond ==
    /\ EWFrame
    /\ ew_pc = "respond"
    /\ ew_outputs' = Append(ew_outputs, ew_task)
    /\ ew_pc' = "idle"
    /\ UNCHANGED <<ew_name, ew_fs, ew_clock, ew_last_mtime, ew_task,
                   ew_processed, tw_pc, tw_n, tw_message, tw_left, tw_shorts,
                   tw_sent>>

EWNext ==
    EWTick \/ TWOpen \/ TWWrite \/ TWFail \/ EWCheck \/ EWProcess \/ EWRespond

SpecWatcher == EWInit /\ [][EWNext]_vars

\* C31: last_mtime never decreases; process() is called only for a file
\* whose mtime is greater than last_mtime, and then last_mtime is that
\* mtime before the file is read, so no mtime is processed twice; a task
\* whose text does not parse writes nothing and leaves last_mtime where it
\* is, so that only a later modification is processed.
C31_AtMostOncePerMtime ==
    [][/\ ew_last_mtime' >= ew_last_mtime
       /\ ew_processed' # ew_processed =>
              LET file == ew_fs[DirOf(ew_name)]
              IN  /\ file.exists
                  /\ file.mtime > ew_last_mtime
                  /\ ew_last_mtime' = file.mtime
                  /\ ew_processed' = Append(ew_processed, file.mtime)
                  /\ \A i \in 1..Len(ew_processed) : ew_processed[i] < file.mtime
       /\ ew_pc' \in {"process", "respond"} =>
              /\ ew_processed' # <<>>
              /\ ew_last_mtime' = ew_processed'[Len(ew_processed')]
       /\ ew_task' # ew_task => ew_pc = "process"
       /\ ew_outputs' # ew_outputs => ew_pc = "respond"
       /\ (ew_pc = "process" /\ ew_pc' = "idle") =>
              /\ ~Loads(ew_fs[DirOf(ew_name)].text).ok
              /\ ew_outputs' = ew_outputs
              /\ ew_last_mtime' = ew_last_mtime]_vars

\* one message was sent to a file that did not exist; the watcher called
\* process() for a first mtime, when the text did not parse, and for a
\* later one, when it answered the message
C31_Witness ==
    /\ tw_n = 1
    /\ ew_pc = "idle"
    /\ Len(ew_processed) = 2
    /\ ew_processed[1] < ew_processed[2]
    /\ ew_outputs = tw_sent
    /\ Len(tw_sent) = 1

\* the watcher has seen the file as it is: it is between two checks, no
\* call of route_message is under way, and the next check returns without
\* a call of process()
C32_Quiet ==
    /\ tw_pc = "idle"
    /\ ew_pc = "idle"
    /\ LET file == ew_fs[DirOf(ew_name)]
       IN  ~(file.exists /\ Changed(file.mtime, ew_last_mtime))

\* C32: when route_message has written one message to the input.json the
\* watcher polls, and no other message was sent, then once the watcher has
\* seen the file as the writer left it, it has answered the message, once:
\* whatever the order of the steps of the writer and of the watcher.
C32_ProcessedExactlyOnce ==
    (/\ tw_n = 1
     /\ Len(tw_sent) = 1
     /\ TalkPath(ew_name, DOMAIN ew_fs) = DirOf(ew_name)
     /\ C32_Quiet) =>
        Cardinality({i \in 1..Len(ew_outputs) : ew_outputs[i] = tw_sent[1]}) = 1

\* the same for a message route_message has written into a dir of the
\* entity that is not the one the daemon watches
C32_OtherDirProcessed ==
    (/\ tw_n = 1
     /\ Len(tw_sent) = 1
     /\ TalkPath(ew_name, DOMAIN ew_fs) # DirOf(ew_name)
     /\ C32_Quiet) =>
        \E i \in 1..Len(ew_outputs) : ew_outputs[i] = tw_sent[1]

\* the two ways one message is not answered once: the watcher saw the file
\* cut to nothing and the text came with the same mtime, so that no check
\* finds a change; the text came between the stat and the read of the
\* watcher with a later mtime, so that the next check answers it again
C32_Lost ==
    /\ tw_n = 1 /\ Len(tw_sent) = 1 /\ C32_Quiet
    /\ TalkPath(ew_name, DOMAIN ew_fs) = DirOf(ew_name)
    /\ \A i \in 1..Len(ew_outputs) : ew_outputs[i] # tw_sent[1]

C32_Twice ==
    /\ tw_n = 1 /\ Len(tw_sent) = 1 /\ C32_Quiet
    /\ Cardinality({i \in 1..Len(ew_outputs) : ew_outputs[i] = tw_sent[1]}) = 2

-----------------------------------------------------------------------------
(* entity_daemon.py: maybe_react and the reaction check of daemon_loop, for *)
(* one entity.  The time is time.time() in seconds; it moves while the     *)
(* daemon sleeps and while the API answers.                                 *)

MinReactionGap == 30   \* maybe_react: the least seconds between two reactions
MaxTime        == 60   \* the last time a reaction check starts at

\* lines 338-339 and 347: ten iterations that sleep half a second each lie
\* between two reaction checks
CheckSeconds == ReactionPeriod \div 2

\* lines 328-329: the daemon enters its loop at some time, with no reaction
\* recorded; the API of the entity is configured or not (lines 60-72)
MRInit ==
    /\ RAIdle /\ RZIdle /\ MUIdle /\ SEIdle /\ FIdle /\ OCIdle /\ APIdle
    /\ DMIdle /\ AXIdle /\ HPIdle /\ EWIdle
    /\ mr_ready \in BOOLEAN
    /\ mr_clock = MinReactionGap
    /\ mr_last_reaction = 0
    /\ mr_pc = "loop"
    /\ mr_ret = FALSE
    /\ mr_writes = <<>>

\* lines 338-344 and 253-279: after the sleeps the check calls maybe_react,
\* which returns False on nine draws of ten, without a stimulus of interest
\* and less than 30 seconds after last_reaction, and goes on otherwise
MRCheck ==
    /\ MRFrame
    /\ mr_pc = "loop"
    /\ mr_clock <= MaxTime
    /\ mr_clock' = mr_clock + CheckSeconds
    /\ \E drawn \in BOOLEAN, interesting \in BOOLEAN :
         IF drawn /\ interesting /\ ~(mr_clock' - mr_last_reaction < MinReactionGap)
         THEN mr_pc' = "call" /\ UNCHANGED mr_ret
         ELSE mr_pc' = "returned" /\ mr_ret' = FALSE
    /\ UNCHANGED <<mr_ready, mr_last_reaction, mr_writes>>

\* lines 282-303 and 308-310: without a configured API maybe_react returns
\* False; the call of the API takes its time and answers or raises; the
\* answer is written to reaction.json
MRCall ==
    /\ MRFrame
    /\ mr_pc = "call"
    /\ \E seconds \in {0, CheckSeconds}, answers \in BOOLEAN :
         /\ mr_clock' = IF mr_ready THEN mr_clock + seconds ELSE mr_clock
         /\ IF mr_ready /\ answers
            THEN /\ mr_writes' = Append(mr_writes, mr_clock')
                 /\ mr_pc' = "print"
                 /\ UNCHANGED mr_ret
            ELSE /\ mr_pc' = "returned"
                 /\ mr_ret' = FALSE
                 /\ UNCHANGED mr_writes
    /\ UNCHANGED <<mr_ready, mr_last_reaction>>

\* lines 305-310: the reaction is printed inside the try, and maybe_react
\* returns True; when print raises (a character of the reaction that the
\* encoding of stdout does not have) the except clause returns False
MRPrint ==
    /\ MRFrame
    /\ mr_pc = "print"
    /\ \E printed \in BOOLEAN : mr_ret' = printed
    /\ mr_pc' = "returned"
    /\ UNCHANGED <<mr_ready, mr_clock, mr_last_reaction, mr_writes>>

\* lines 344-345: last_reaction[name] = time.time() when maybe_react
\* returned True
MRRecord ==
    /\ MRFrame
    /\ mr_pc = "returned"
    /\ mr_last_reaction' = IF mr_ret THEN mr_clock ELSE mr_last_reaction
    /\ mr_ret' = FALSE
    /\ mr_pc' = "loop"
    /\ UNCHANGED <<mr_ready, mr_clock, mr_writes>>

MRNext == MRCheck \/ MRCall \/ MRPrint \/ MRRecord

SpecReact == MRInit /\ [][MRNext]_vars

\* C33: two successive writes of reaction.json for an entity are at least
\* 30 seconds apart, and reaction.json is never written less than 30
\* seconds after last_reaction[name].
C33_ReactionsApart ==
    /\ \A i \in 2..Len(mr_writes) :
           mr_writes[i] - mr_writes[i - 1] >= MinReactionGap
    /\ mr_pc = "print" =>
           mr_writes[Len(mr_writes)] - mr_last_reaction >= MinReactionGap

\* what holds of it: reaction.json is written only 30 seconds or more after
\* last_reaction[name], and last_reaction[name] changes exactly when
\* maybe_react has returned True, to the time of that moment
C33_CheckedAndRecorded ==
    [][/\ mr_writes' # mr_writes =>
              mr_clock' - mr_last_reaction >= MinReactionGap
       /\ mr_last_reaction' # mr_last_reaction => mr_pc = "returned" /\ mr_ret
       /\ (mr_pc = "returned" /\ mr_ret) => mr_last_reaction' = mr_clock]_vars

\* two successive writes followed by a return of True are 30 seconds or
\* more apart
C33_RecordedApart ==
    [][(mr_pc = "returned" /\ mr_ret /\ mr_last_reaction # 0) =>
           mr_clock - mr_last_reaction >= MinReactionGap]_vars

====
